---- MODULE Spec2Model ----
(***************************************************************************)
(* Asynchronous chat relay server (Final_Project/test_relay_server.py, the *)
(* file whose first line names it relay_server_v2.py; the debug copy is    *)
(* Final_Project/debug/relay_server_debug.py).                             *)
(*                                                                         *)
(* One asyncio task per accepted connection runs handle_client.  asyncio   *)
(* is cooperative: a task runs without interruption from one suspension    *)
(* point (await drain / readline / a contended lock / wait_closed) to the  *)
(* next, so every action below is one such run.  A text is a sequence of   *)
(* tokens: user data is one character per token, a literal of the program  *)
(* is one token.                                                           *)
(*                                                                         *)
(* Three suspension points are not states of the model, because nothing    *)
(* another task does can be told apart before and after them: the drain    *)
(* after the prompt (Accept), the drain after the ready acknowledgment     *)
(* (AfterBroadcast) and wait_closed (FinalClose).  A transport error       *)
(* raised there is the same as one raised by the read that follows.        *)
(* Connections are interchangeable, so they are numbered in the order      *)
(* their first line arrives.                                               *)
(***************************************************************************)
EXTENDS Integers, Sequences, FiniteSets, TLC

\* ------------------------------------------------------------------ bounds
\* connections the server accepts in one run
NConn == 3
\* events of the environment in one run: chat lines read (quit and end of
\* stream excluded), transport errors raised, tasks cancelled
MaxEvents == 1

Conns == 1..NConn

\* the client: how many background threads it starts and how many of them
\* get to run, how many messages the user sends and how many lines, ends of
\* stream or resets the server causes
MaxThreads == 3
MaxRunning == 2
MaxSends == 1
MaxLines == 1
\* the same for a client that is followed through one session only
MaxSessionLines == 3

\* lines a peer sends before it closes the stream (p2p_chat_v1)
MaxPeerLines == 3

\* calls made to the CSV record store (APIs/api.py)
MaxStoreOps == 3
\* chat lines relayed in a run of the relay taken line by line
MaxRelayLines == 2

Threads == 1..MaxThreads

\* ------------------------------------------------------------------ texts
NL == "\n"
EOF == <<>>
Whitespace == {" ", NL, "\t"}

\* str.lower() on the characters the inputs use
LowerChar(ch) ==
    CASE ch = "Q" -> "q"
      [] ch = "U" -> "u"
      [] ch = "I" -> "i"
      [] ch = "T" -> "t"
      [] ch = "A" -> "a"
      [] ch = "S" -> "s"
      [] OTHER -> ch

Lower(s) == [i \in 1..Len(s) |-> LowerChar(s[i])]

RECURSIVE LStrip(_)
LStrip(s) ==
    IF s # <<>> /\ Head(s) \in Whitespace THEN LStrip(Tail(s)) ELSE s

RECURSIVE RStrip(_)
RStrip(s) ==
    IF s # <<>> /\ s[Len(s)] \in Whitespace
    THEN RStrip(SubSeq(s, 1, Len(s) - 1))
    ELSE s

\* str.strip(): leading and trailing whitespace removed
Strip(s) == RStrip(LStrip(s))

\* the sentinel of the cleanup path: departing_username = "Someone"
Someone == <<"S", "o", "m", "e", "o", "n", "e">>
\* username = None
NoName == <<"<None>">>

\* peername[1], the peer's port, as text: one port per connection
PortText(c) == <<"5", "0", "0">> \o <<<<"1", "2", "3", "4", "5", "6", "7", "8", "9">>[c]>>

DefaultName(c) == <<"U", "s", "e", "r", "_">> \o PortText(c)

WelcomeMsg == <<"Welcome! Please enter your username:\n">>
DefaultNotice(name) == <<"No username provided, assigned: ">> \o name \o <<NL>>
RejectMsg(name) ==
    <<"Username '">> \o name
        \o <<"' already taken. Please reconnect with a different name.\n">>
AckMsg == <<"You are now connected. Type 'quit' to exit.\n">>
JoinMsg(name) == <<"[Server] '">> \o name \o <<"' has joined the chat!">>
ChatMsg(name, message) == <<"[">> \o name \o <<"]: ">> \o message
LeaveMsg(name) == <<"[Server] '">> \o name \o <<"' has left the chat.">>
\* encoded_message = message.encode() + b'\n'
Encoded(message) == message \o <<NL>>

\* what a client may send as its first line
NameLines ==
    { <<"a", NL>>, <<" ", "a", NL>>, <<"A", NL>>, <<" ", NL>>, <<NL>>,
      Someone \o <<NL>>, DefaultName(2) \o <<NL>> }
\* what a client may send afterwards
ChatLines == { <<"h", "i", NL>>, <<"Q", "u", "i", "t", " ", NL>>, <<" ", NL>> }

\* ------------------------------------------------------------------ state
VARIABLES
    pc,                \* per handler: where it is suspended
    username,          \* per handler: local username (NoName = None)
    departing,         \* per handler: local departing_username
    connected_clients, \* the registry, in insertion order: <<[writer, username]>>
    lockOwner,         \* clients_lock: the task holding it, 0 = unlocked
    lockWaiters,       \* clients_lock: the tasks waiting, first in first out
    phase,             \* per handler: the broadcast call it is in
    bmsg,              \* per handler: message of the broadcast call it is in
    all_writers,       \* the running broadcast's snapshot of the registry's keys
    bpos,              \* the running broadcast's position in all_writers
    closing,           \* per writer: close() has been called (is_closing())
    wire,              \* per writer: what has been written to it, in order
    reraise,           \* per handler: a CancelledError is propagating
    events,            \* events of the environment so far
    hist,              \* per connection: counters used by the properties
    serving,           \* the server is listening (serve_forever is running)
    heard              \* per handler: the chat lines it relayed, in the order read

vars ==
    << pc, username, departing, connected_clients, lockOwner, lockWaiters, phase,
       bmsg, all_writers, bpos, closing, wire, reraise, events, hist, serving,
       heard >>

\* the client's state: the attributes of ChatClientGUI, then per background
\* thread its event loop, its two tasks and its transport
VARIABLES
    is_connected,      \* self.is_connected
    is_connecting,     \* self.is_connecting
    connect_lock,      \* self.connect_lock.locked()
    async_loop,        \* self.async_loop: the thread whose loop it is, 0 = None
    connection_task,   \* self.connection_task: the thread whose task, 0 = None
    receive_task,      \* self.receive_task: the thread whose task, 0 = None
    writer,            \* self.reader, self.writer: the thread whose streams, 0 = None
    client_username,   \* self.username
    thread,            \* per thread: where _run_async_client_manual_loop is
    ready,             \* per loop: the callbacks ready to run, in order
    stopping,          \* per loop: stop() was called
    ctask,             \* per thread: where client_connection_loop is suspended
    rtask,             \* per thread: where handle_received_data_async is
    cmust,             \* per connection task: cancel() arrived while not waiting
    rmust,             \* per receive task: cancel() arrived while not waiting
    first_message,     \* per receive task: local first_message
    transport,         \* per thread: state of the transport it opened
    sent,              \* per transport: what was written to it, in order
    nsends,            \* messages the user has sent so far
    nlines,            \* lines, ends of stream and resets received so far
    openai_client,     \* self.openai_client is set
    api_key_var,       \* the text of the API key entry
    ui,                \* where the user interface thread is in its handler
    said               \* what the last step told the user: chat display and status

cvars ==
    << is_connected, is_connecting, connect_lock, async_loop, connection_task,
       receive_task, writer, client_username, thread, ready, stopping,
       ctask, rtask, cmust, rmust, first_message, transport, sent, nsends,
       nlines, openai_client, api_key_var, ui, said >>

\* the client's state but for what the last step told the user
cstate ==
    << is_connected, is_connecting, connect_lock, async_loop, connection_task,
       receive_task, writer, client_username, thread, ready, stopping,
       ctask, rtask, cmust, rmust, first_message, transport, sent, nsends,
       nlines, openai_client, api_key_var, ui >>

\* handle_received_data of p2p_chat_v1: one call, its reader and its writer
VARIABLES
    p2p_pc,            \* where the call is: "idle" before it, "readline", "done"
    p2p_lines,         \* what the peer sends before it closes the stream
    p2p_calls,         \* reader.readline: calls so far
    p2p_out,           \* what was printed, in order
    p2p_closing,       \* writer.is_closing()
    p2p_closes         \* writer.close: calls so far

pvars == << p2p_pc, p2p_lines, p2p_calls, p2p_out, p2p_closing, p2p_closes >>

\* handle_received_data has not been called
PeerInit ==
    /\ p2p_pc = "idle"
    /\ p2p_lines = <<>>
    /\ p2p_calls = 0
    /\ p2p_out = <<>>
    /\ p2p_closing = FALSE
    /\ p2p_closes = 0

\* the CSV record store of APIs/api.py: the files under BASE_DIR
VARIABLES
    db_master,         \* per module: the ID rows of its master file, in order
    db_files,          \* per module and id: whether the file exists, and its rows
    db_ret,            \* what the last create returned
    db_ops             \* calls made so far

dvars == << db_master, db_files, db_ret, db_ops >>

\* ChatClientGUI.__init__, no background thread started yet
ClientInit ==
    /\ is_connected = FALSE
    /\ is_connecting = FALSE
    /\ connect_lock = FALSE
    /\ async_loop = 0
    /\ connection_task = 0
    /\ receive_task = 0
    /\ writer = 0
    /\ client_username = <<>>
    /\ thread = [t \in Threads |-> "unborn"]
    /\ ready = [t \in Threads |-> <<>>]
    /\ stopping = [t \in Threads |-> FALSE]
    /\ ctask = [t \in Threads |-> "none"]
    /\ rtask = [t \in Threads |-> "none"]
    /\ cmust = [t \in Threads |-> FALSE]
    /\ rmust = [t \in Threads |-> FALSE]
    /\ first_message = [t \in Threads |-> TRUE]
    /\ transport = [t \in Threads |-> "none"]
    /\ sent = [t \in Threads |-> <<>>]
    /\ nsends = 0
    /\ nlines = 0
    /\ openai_client = FALSE
    /\ api_key_var = <<>>
    /\ ui = "idle"
    /\ said = <<>>

\* the modules of the record store, and the ids random.randint may draw
\* (two stand for the 9-digit numbers)
Modules == {"User", "House", "Room", "Device"}
IdSpace == {"100000001", "100000002"}

\* a module file that does not exist
NoFile == [exists |-> FALSE, rows |-> <<>>]

\* setup_environment on an empty directory: master files with their header
\* row, module folders without files
StoreInit ==
    /\ db_master = [m \in Modules |-> <<>>]
    /\ db_files = [m \in Modules |-> [i \in IdSpace |-> NoFile]]
    /\ db_ret = [ok |-> FALSE, id |-> ""]
    /\ db_ops = 0

\* per connection: how often it was inserted in the registry, removed from it
\* by its handler's cleanup, removed from it by a broadcast that failed to
\* write to it, and how often its handler entered the cleanup path
NoHist == [ inserted |-> 0, removed |-> 0, forced |-> 0, cleanups |-> 0 ]

Init ==
    /\ pc = [c \in Conns |-> "idle"]
    /\ username = [c \in Conns |-> NoName]
    /\ departing = [c \in Conns |-> Someone]
    /\ connected_clients = <<>>
    /\ lockOwner = 0
    /\ lockWaiters = <<>>
    /\ phase = [c \in Conns |-> "none"]
    /\ bmsg = [c \in Conns |-> <<>>]
    /\ all_writers = <<>>
    /\ bpos = 0
    /\ closing = [c \in Conns |-> FALSE]
    /\ wire = [c \in Conns |-> <<>>]
    /\ reraise = [c \in Conns |-> FALSE]
    /\ events = 0
    /\ hist = [c \in Conns |-> NoHist]
    /\ serving = TRUE
    /\ heard = [c \in Conns |-> <<>>]
    /\ ClientInit
    /\ PeerInit
    /\ StoreInit

\* the state as one record, so that the code between two suspension points
\* is a function from state to state
Cur ==
    [ pc |-> pc, username |-> username, departing |-> departing,
      connected_clients |-> connected_clients, lockOwner |-> lockOwner,
      lockWaiters |-> lockWaiters, phase |-> phase, bmsg |-> bmsg,
      all_writers |-> all_writers, bpos |-> bpos, closing |-> closing,
      wire |-> wire,
      reraise |-> reraise, events |-> events, hist |-> hist, serving |-> serving,
      heard |-> heard ]

Becomes(st) ==
    /\ pc' = st.pc
    /\ username' = st.username
    /\ departing' = st.departing
    /\ connected_clients' = st.connected_clients
    /\ lockOwner' = st.lockOwner
    /\ lockWaiters' = st.lockWaiters
    /\ phase' = st.phase
    /\ bmsg' = st.bmsg
    /\ all_writers' = st.all_writers
    /\ bpos' = st.bpos
    /\ closing' = st.closing
    /\ wire' = st.wire
    /\ reraise' = st.reraise
    /\ events' = st.events
    /\ hist' = st.hist
    /\ serving' = st.serving
    /\ heard' = st.heard
    /\ UNCHANGED << cvars, pvars, dvars >>

\* ------------------------------------------------------------------ registry
\* the snapshot as it would be if it missed the newest entry
WritersButLast(reg) == [i \in 1..(Len(reg) - 1) |-> reg[i].writer]

\* list(connected_clients.keys())
Writers(reg) == [i \in 1..Len(reg) |-> reg[i].writer]

\* writer in connected_clients
InRegistry(reg, w) == \E i \in 1..Len(reg) : reg[i].writer = w

\* the check as it would be if it looked at the newest entry only
NameTakenLast(reg, name) == reg # <<>> /\ reg[Len(reg)].username = name

\* any(c.get("username") == username for c in connected_clients.values())
NameTaken(reg, name) == \E i \in 1..Len(reg) : reg[i].username = name

\* connected_clients[writer].get("username", ...)
NameOf(reg, w) == reg[CHOOSE i \in 1..Len(reg) : reg[i].writer = w].username

RECURSIVE Without(_, _)
\* del connected_clients[writer]
Without(reg, w) ==
    IF reg = <<>> THEN <<>>
    ELSE IF Head(reg).writer = w THEN Without(Tail(reg), w)
    ELSE <<Head(reg)>> \o Without(Tail(reg), w)

\* connected_clients[writer] = {"peername": peername, "username": username}
Put(reg, w, name) ==
    IF InRegistry(reg, w)
    THEN [i \in 1..Len(reg) |->
            IF reg[i].writer = w THEN [writer |-> w, username |-> name] ELSE reg[i]]
    ELSE Append(reg, [writer |-> w, username |-> name])

\* ------------------------------------------------------------------ clients_lock
\* asyncio.Lock.acquire() returns at once only when the lock is free and
\* nobody waits; otherwise the caller queues and the lock is handed on in
\* arrival order
LockFree(st) == st.lockOwner = 0 /\ st.lockWaiters = <<>>

Take(st, c) == [st EXCEPT !.lockOwner = c]

Release(st) == [st EXCEPT !.lockOwner = 0]

Wait(st, c, label) ==
    [st EXCEPT !.lockWaiters = Append(@, c), !.pc[c] = label]

\* the write as it would be if the stream put the newest data first
WriteNewestFirst(st, w, data) == [st EXCEPT !.wire[w] = <<data>> \o @]

\* writer.write(data)
Write(st, w, data) == [st EXCEPT !.wire[w] = Append(@, data)]

\* ------------------------------------------------------------------ handle_client, broadcast
\* the code a handler runs from one suspension point to the next, as functions
\* from state to state; the later code is defined first

\* the handler returns (or the CancelledError leaves it): its locals and
\* what was written to its stream are gone
Finish(st, c) ==
    [st EXCEPT !.pc[c] = "done", !.username[c] = NoName, !.departing[c] = Someone,
               !.phase[c] = "none", !.bmsg[c] = <<>>, !.wire[c] = <<>>]

\* the end of the handler as it would be without the final close
FinalCloseSkip(st, c) == Finish(st, c)

\* if client_writer and not client_writer.is_closing(): close(); await
\* wait_closed(), swallowing its error; then the handler returns
FinalClose(st, c) ==
    IF ~st.closing[c]
    THEN Finish([st EXCEPT !.closing[c] = TRUE], c)
    ELSE Finish(st, c)

\* the argument as it would be if every call passed None
SenderNone(st, c) == 0

\* the sender_writer argument of the broadcast call a handler is in
Sender(st, c) == IF st.phase[c] = "leave" THEN 0 ELSE c

\* what follows the return of broadcast at its three call sites
AfterBroadcast(st, c) ==
    CASE st.phase[c] = "join" ->
            [Write(st, c, AckMsg) EXCEPT !.pc[c] = "read_line", !.phase[c] = "none"]
      [] st.phase[c] = "chat" ->
            [st EXCEPT !.pc[c] = "read_line", !.phase[c] = "none"]
      [] OTHER -> FinalClose([st EXCEPT !.phase[c] = "none"], c)

\* the lock is left: the broadcast's locals are gone
EndBroadcast(st) == Release([st EXCEPT !.all_writers = <<>>, !.bpos = 0])

RECURSIVE BroadcastLoop(_, _)
\* for writer in all_writers, from the position after bpos: skip the sender,
\* write to the next one and suspend in its drain; after the last one leave
\* the lock and return
BroadcastLoop(st, c) ==
    LET i == st.bpos + 1
    IN  IF i > Len(st.all_writers)
        THEN AfterBroadcast(EndBroadcast(st), c)
        ELSE IF st.all_writers[i] = Sender(st, c)
        THEN BroadcastLoop([st EXCEPT !.bpos = i], c)
        ELSE [Write(st, st.all_writers[i], Encoded(st.bmsg[c]))
                EXCEPT !.bpos = i, !.pc[c] = "bcast_drain"]

\* broadcast with the lock taken: all_writers = list(connected_clients.keys())
BroadcastLocked(st, c) ==
    BroadcastLoop(
        [st EXCEPT !.all_writers = Writers(st.connected_clients), !.bpos = 0], c)

\* await broadcast(message, sender_writer): async with clients_lock
BroadcastCall(st, c, message, site) ==
    LET st1 == [st EXCEPT !.bmsg[c] = message, !.phase[c] = site]
    IN  IF LockFree(st1)
        THEN BroadcastLocked(Take(st1, c), c)
        ELSE Wait(st1, c, "bcast_lock")

\* the finally block as it would be without the del
CleanupLockedNoDel(st, c) ==
    LET reg == st.connected_clients
        found == InRegistry(reg, c)
        name == IF found THEN NameOf(reg, c) ELSE st.departing[c]
        st1 == [st EXCEPT !.departing[c] = name,
                          !.hist[c].removed = IF found THEN @ + 1 ELSE @]
        st2 == Release(st1)
    IN  IF name # Someone
        THEN BroadcastCall(st2, c, LeaveMsg(name), "leave")
        ELSE FinalClose(st2, c)

\* the finally block as it would be if it announced the handler's local
\* username instead of the name found in the registry
CleanupLockedLocalName(st, c) ==
    LET reg == st.connected_clients
        found == InRegistry(reg, c)
        name == IF st.username[c] # NoName THEN st.username[c] ELSE st.departing[c]
        st1 == [st EXCEPT !.departing[c] = name,
                          !.connected_clients = IF found THEN Without(reg, c) ELSE reg,
                          !.hist[c].removed = IF found THEN @ + 1 ELSE @]
        st2 == Release(st1)
    IN  IF name # Someone
        THEN BroadcastCall(st2, c, LeaveMsg(name), "leave")
        ELSE FinalClose(st2, c)

\* the finally block with the lock taken: remove the entry if there is one,
\* leave the lock, announce the departure if a name was found, close
CleanupLocked(st, c) ==
    LET reg == st.connected_clients
        found == InRegistry(reg, c)
        name == IF found THEN NameOf(reg, c) ELSE st.departing[c]
        st1 == [st EXCEPT !.departing[c] = name,
                          !.connected_clients = IF found THEN Without(reg, c) ELSE reg,
                          !.hist[c].removed = IF found THEN @ + 1 ELSE @]
        st2 == Release(st1)
    IN  IF name # Someone
        THEN BroadcastCall(st2, c, LeaveMsg(name), "leave")
        ELSE FinalClose(st2, c)

\* finally: departing_username = "Someone"; async with clients_lock
EnterCleanup(st, c) ==
    LET st1 == [st EXCEPT !.departing[c] = Someone, !.hist[c].cleanups = @ + 1]
    IN  IF LockFree(st1)
        THEN CleanupLocked(Take(st1, c), c)
        ELSE Wait(st1, c, "cleanup_lock")

\* step 2 as it would be without the check for a name already present
RegisterLockedBlind(st, c) ==
    LET reg == st.connected_clients
        name == st.username[c]
    IN  BroadcastCall(
            Release([st EXCEPT !.connected_clients = Put(reg, c, name),
                                !.hist[c].inserted = @ + 1]),
            c, JoinMsg(name), "join")

\* step 2 as it would be if the join broadcast were called inside the
\* async with block
RegisterLockedHolding(st, c) ==
    LET reg == st.connected_clients
        name == st.username[c]
    IN  IF NameTaken(reg, name)
        THEN [Write(st, c, RejectMsg(name)) EXCEPT !.pc[c] = "reject_drain"]
        ELSE BroadcastCall(
                [st EXCEPT !.connected_clients = Put(reg, c, name),
                           !.hist[c].inserted = @ + 1],
                c, JoinMsg(name), "join")

\* step 2 with the lock taken: reject a name already present, else insert,
\* leave the lock and announce the join
RegisterLocked(st, c) ==
    LET reg == st.connected_clients
        name == st.username[c]
    IN  IF NameTaken(reg, name)
        THEN [Write(st, c, RejectMsg(name)) EXCEPT !.pc[c] = "reject_drain"]
        ELSE BroadcastCall(
                Release([st EXCEPT !.connected_clients = Put(reg, c, name),
                                    !.hist[c].inserted = @ + 1]),
                c, JoinMsg(name), "join")

\* step 2: async with clients_lock
RegisterCall(st, c) ==
    IF LockFree(st)
    THEN RegisterLocked(Take(st, c), c)
    ELSE Wait(st, c, "reg_lock")

\* ------------------------------------------------------------------ actions
\* what an awaited read, write or drain can do: return, or raise a transport
\* error (ConnectionResetError, BrokenPipeError, OSError)
Outcomes == IF events < MaxEvents THEN {"ok", "error"} ELSE {"ok"}

\* in a broadcast the drain may also raise something that is no OSError
DrainOutcomes == IF events < MaxEvents THEN {"ok", "oserror", "other"} ELSE {"ok"}

Failed(st) == [st EXCEPT !.events = @ + 1]

\* the server accepts a connection (connections are numbered in the order
\* accepted) and its task runs to the first readline: it writes the prompt
\* and drains.  drain() suspends only while the transport's write buffer is
\* above its high-water mark, which the prompt alone on a new connection
\* never reaches, so it returns at once or raises
Accept(c) ==
    /\ serving
    /\ pc[c] = "idle"
    /\ \A d \in Conns : d < c => pc[d] # "idle"
    /\ \E o \in Outcomes :
        LET st == Write(Cur, c, WelcomeMsg)
        IN  Becomes(IF o = "ok"
                    THEN [st EXCEPT !.pc[c] = "read_name"]
                    ELSE EnterCleanup(Failed(st), c))

\* username_data = await reader.readline() returns data; then steps 1 and 2
ReadNameData(c, data) ==
    LET name == Strip(data)
    IN  /\ pc[c] = "read_name"
        /\ \A d \in Conns : d < c => pc[d] \notin {"idle", "read_name"}
        /\ Becomes(
                IF data = EOF THEN EnterCleanup(Cur, c)
                ELSE IF name = <<>>
                THEN [Write([Cur EXCEPT !.username[c] = DefaultName(c)],
                            c, DefaultNotice(DefaultName(c)))
                        EXCEPT !.pc[c] = "default_drain"]
                ELSE RegisterCall([Cur EXCEPT !.username[c] = name], c))

\* username_data = await reader.readline(), returning or raising
ReadName(c) ==
    \/ \E data \in NameLines \cup {EOF} : ReadNameData(c, data)
    \/ /\ pc[c] = "read_name"
       /\ \A d \in Conns : d < c => pc[d] \notin {"idle", "read_name"}
       /\ "error" \in Outcomes
       /\ Becomes(EnterCleanup(Failed(Cur), c))

\* the same as it would be if a default name were inserted unchecked when
\* the lock is free
DefaultDrainedBlind(c) ==
    /\ pc[c] = "default_drain"
    /\ \E o \in Outcomes :
        Becomes(IF o = "ok"
                THEN IF LockFree(Cur)
                     THEN RegisterLockedBlind(Take(Cur, c), c)
                     ELSE Wait(Cur, c, "reg_lock")
                ELSE EnterCleanup(Failed(Cur), c))

\* await writer.drain() after the default-name notice
DefaultDrained(c) ==
    /\ pc[c] = "default_drain"
    /\ \E o \in Outcomes :
        Becomes(IF o = "ok"
                THEN RegisterCall(Cur, c)
                ELSE EnterCleanup(Failed(Cur), c))

\* a waiting task is handed the free lock and goes on where it waited
LockGranted(c) ==
    /\ lockOwner = 0
    /\ lockWaiters # <<>>
    /\ Head(lockWaiters) = c
    /\ LET st == Take([Cur EXCEPT !.lockWaiters = Tail(@)], c)
       IN  Becomes(CASE pc[c] = "reg_lock" -> RegisterLocked(st, c)
                     [] pc[c] = "bcast_lock" -> BroadcastLocked(st, c)
                     [] OTHER -> CleanupLocked(st, c))

\* await writer.drain() after the rejection, inside the lock; then return
RejectDrained(c) ==
    /\ pc[c] = "reject_drain"
    /\ \E o \in Outcomes :
        Becomes(EnterCleanup(Release(IF o = "ok" THEN Cur ELSE Failed(Cur)), c))

\* the except clause as it would be if it only closed the writer
ForceRemoveKeep(st, w) == [st EXCEPT !.closing[w] = TRUE]

\* the except clause of broadcast for an OSError: writer.close() and
\* del connected_clients[writer] if it is there
ForceRemove(st, w) ==
    LET reg == st.connected_clients
    IN  [st EXCEPT !.closing[w] = TRUE,
                   !.connected_clients = IF InRegistry(reg, w) THEN Without(reg, w) ELSE reg,
                   !.hist[w].forced = IF InRegistry(reg, w) THEN @ + 1 ELSE @]

\* await writer.drain() in broadcast, inside the lock, for the writer at bpos,
\* returns (o = "ok"), raises an OSError or raises another exception
BroadcastDrainedWith(c, o) ==
    /\ pc[c] = "bcast_drain"
    /\ o \in DrainOutcomes
    /\ Becomes(CASE o = "ok" -> BroadcastLoop(Cur, c)
                 [] o = "oserror" ->
                        BroadcastLoop(ForceRemove(Failed(Cur), all_writers[bpos]), c)
                 [] OTHER -> BroadcastLoop(Failed(Cur), c))

BroadcastDrained(c) ==
    \E o \in {"ok", "oserror", "other"} : BroadcastDrainedWith(c, o)

\* the comparison as it would be without lower()
IsQuitExact(message) == message = <<"q", "u", "i", "t">>

\* message.lower() == 'quit'
IsQuit(message) == Lower(message) = <<"q", "u", "i", "t">>

\* data = await reader.readline() in the chat loop returns data; then step 4
ReadLineData(c, data) ==
    LET message == Strip(data)
    IN  /\ pc[c] = "read_line"
        /\ data = EOF \/ IsQuit(message) \/ events < MaxEvents
        /\ Becomes(
                IF data = EOF THEN EnterCleanup(Cur, c)
                ELSE IF IsQuit(message) THEN EnterCleanup(Cur, c)
                ELSE IF message = <<>> THEN [Cur EXCEPT !.events = @ + 1]
                ELSE BroadcastCall([Cur EXCEPT !.events = @ + 1], c,
                                   ChatMsg(username[c], message), "chat"))

\* data = await reader.readline() in the chat loop, returning or raising
ReadLine(c) ==
    \/ \E data \in ChatLines \cup {EOF} : ReadLineData(c, data)
    \/ /\ pc[c] = "read_line"
       /\ "error" \in Outcomes
       /\ Becomes(EnterCleanup(Failed(Cur), c))

\* the handler is suspended inside the try body (not yet in finally)
InBody(c) ==
    \/ pc[c] \in {"read_name", "default_drain", "reg_lock",
                  "reject_drain", "read_line"}
    \/ pc[c] \in {"bcast_lock", "bcast_drain"} /\ phase[c] \in {"join", "chat"}

\* a CancelledError is raised at the suspension point of c's handler: a lock
\* held is left, a place in the lock's queue is given up; in the try body the
\* except clause re-raises and finally runs, in finally the rest of the
\* cleanup is skipped
Thrown(st, c) ==
    LET body == \/ st.pc[c] \in {"read_name", "default_drain", "reg_lock",
                                 "reject_drain", "read_line"}
                \/ /\ st.pc[c] \in {"bcast_lock", "bcast_drain"}
                   /\ st.phase[c] \in {"join", "chat"}
        st1 == [st EXCEPT
                    !.reraise[c] = TRUE,
                    !.phase[c] = "none",
                    !.lockWaiters = SelectSeq(@, LAMBDA w : w # c),
                    !.lockOwner = IF @ = c THEN 0 ELSE @,
                    !.all_writers = IF st.lockOwner = c THEN <<>> ELSE @,
                    !.bpos = IF st.lockOwner = c THEN 0 ELSE @]
    IN  IF body THEN EnterCleanup(st1, c) ELSE Finish(st1, c)

\* the task of one handler is cancelled from outside
Cancel(c) ==
    /\ pc[c] \notin {"idle", "done"}
    /\ ~reraise[c]
    /\ events < MaxEvents
    /\ Becomes(Thrown([Cur EXCEPT !.events = @ + 1], c))

Next ==
    \E c \in Conns :
        \/ Accept(c)
        \/ ReadName(c)
        \/ DefaultDrained(c)
        \/ LockGranted(c)
        \/ RejectDrained(c)
        \/ BroadcastDrained(c)
        \/ ReadLine(c)
        \/ Cancel(c)

Spec == Init /\ [][Next]_vars

\* ------------------------------------------------------------------ relay
\* the relay with several chat lines: every connection gives a name of its
\* own and sends lines that differ, so that a line on a stream tells which
\* broadcast wrote it
RelayNameLine(c) ==
    IF c = 1 THEN <<"a", NL>> ELSE IF c = 2 THEN <<"A", NL>> ELSE <<" ", NL>>
RelayLines == { <<"1", NL>>, <<" ", "2", NL>> }

\* how many chat lines the handlers have relayed
RECURSIVE RelayedSoFar(_, _)
RelayedSoFar(h, c) == IF c = 0 THEN 0 ELSE Len(h[c]) + RelayedSoFar(h, c - 1)

\* data = await reader.readline() in the chat loop returns a line that is
\* neither blank nor quit: it is broadcast under the handler's name
RelayLine(c, data) ==
    /\ pc[c] = "read_line"
    /\ RelayedSoFar(heard, NConn) < MaxRelayLines
    /\ \A i \in 1..Len(heard[c]) : heard[c][i] # data
    /\ Becomes(BroadcastCall([Cur EXCEPT !.heard[c] = Append(@, data)], c,
                             ChatMsg(username[c], Strip(data)), "chat"))

NextRelay ==
    \E c \in Conns :
        \/ Accept(c)
        \/ ReadNameData(c, RelayNameLine(c))
        \/ DefaultDrained(c)
        \/ LockGranted(c)
        \/ BroadcastDrained(c)
        \/ \E data \in RelayLines : RelayLine(c, data)
        \/ ReadLineData(c, EOF)

SpecRelay == Init /\ [][NextRelay]_vars

\* ------------------------------------------------------------------ shutdown
\* the orders in which the tasks cancelled together are resumed
Orders == { o \in [1..NConn -> Conns] : \A i, j \in 1..NConn : o[i] = o[j] => i = j }

RECURSIVE CancelAll(_, _)
\* every handler still running gets its CancelledError, one after the other
CancelAll(st, order) ==
    IF order = <<>> THEN st
    ELSE LET c == Head(order)
         IN  CancelAll(IF st.pc[c] \notin {"idle", "done"} /\ ~st.reraise[c]
                       THEN Thrown(st, c)
                       ELSE st,
                       Tail(order))

\* Ctrl+C: asyncio.run cancels main_server, which stops listening, and then
\* cancels every task that is left, all in one go
Shutdown ==
    /\ serving
    /\ \E order \in Orders :
            Becomes(CancelAll([Cur EXCEPT !.serving = FALSE], order))

NextShutdown == Next \/ Shutdown

SpecShutdown == Init /\ [][NextShutdown]_vars

\* ------------------------------------------------------------------ the client
\* what the user may have in the username, host and port fields at a click
\* in the course of sessions: all three good, or no name
Fields(name, host, port_str) == [ name |-> name, host |-> host, port |-> port_str ]
ClickInputs ==
    { Fields(<<" ", "a", " ">>, <<"h">>, <<"8">>),
      Fields(<<" ">>, <<"h">>, <<"8">>) }
\* what the fields may hold when the user asks for the first connection
FieldInputs ==
    { Fields(name, host, port_str) :
        name \in { <<" ", "a", " ">>, <<" ">>, <<>> },
        host \in { <<"h">>, <<" ">> },
        port_str \in { <<"8">>, <<" ", "1">>, <<"6", "5", "5", "3", "5">>,
                       <<"6", "5", "5", "3", "6">>, <<"0">>, <<"x">>, <<"8", "x">>,
                       <<>> } }
\* what the API key entry may hold when the user sets the key
KeyTexts == { <<" ", "k">>, <<" ">>, <<"INSERT YOUR KEY HERE">> }
\* lines the server may send in a session that is followed line by line
SessionLines ==
    { <<"Welcome!", " ", "n", NL>>, <<"x", NL>>, <<" ", NL>>,
      <<"[Server]", " ", "x", NL>>, <<"[", "a", "]", ":", " ", "x", NL>> }
\* texts the user may send
SendTexts == { <<"h", "i">>, <<" ", "h", "i", " ">>, <<" ">> }
\* lines the server may send; "Welcome!" stands for those eight characters
RecvLines == { <<"Welcome!", " ", "n", NL>>, <<"x", NL>>, <<" ", NL>> }

DigitOf(ch) ==
    CASE ch = "0" -> 0 [] ch = "1" -> 1 [] ch = "2" -> 2 [] ch = "3" -> 3
      [] ch = "4" -> 4 [] ch = "5" -> 5 [] ch = "6" -> 6 [] ch = "7" -> 7
      [] ch = "8" -> 8 [] ch = "9" -> 9 [] OTHER -> -1

RECURSIVE IntOf(_, _)
\* int(port_str) for an unsigned decimal text; -1 stands for ValueError
IntOf(s, acc) ==
    IF s = <<>> THEN acc
    ELSE IF DigitOf(Head(s)) < 0 THEN -1
    ELSE IntOf(Tail(s), 10 * acc + DigitOf(Head(s)))

\* the port check as it would be if it let port 0 through
PortOkFromZero(port_str) ==
    /\ port_str # <<>>
    /\ IntOf(port_str, 0) >= 0
    /\ IntOf(port_str, 0) < 65536

\* the port check of connect_disconnect
PortOk(port_str) ==
    /\ port_str # <<>>
    /\ IntOf(port_str, 0) >= 0
    /\ 0 < IntOf(port_str, 0) /\ IntOf(port_str, 0) < 65536

\* message.startswith("Welcome!")
StartsWithWelcome(message) == message # <<>> /\ Head(message) = "Welcome!"

\* the client's state as one record, at the start of a step: nothing said
\* yet
CCur ==
    [ is_connected |-> is_connected, is_connecting |-> is_connecting,
      connect_lock |-> connect_lock, async_loop |-> async_loop,
      connection_task |-> connection_task, receive_task |-> receive_task,
      writer |-> writer, client_username |-> client_username,
      thread |-> thread, ready |-> ready,
      stopping |-> stopping, ctask |-> ctask, rtask |-> rtask,
      cmust |-> cmust, rmust |-> rmust, first_message |-> first_message,
      transport |-> transport, sent |-> sent, nsends |-> nsends,
      nlines |-> nlines, openai_client |-> openai_client,
      api_key_var |-> api_key_var, ui |-> ui, said |-> <<>> ]

CBecomes(st) ==
    /\ is_connected' = st.is_connected
    /\ is_connecting' = st.is_connecting
    /\ connect_lock' = st.connect_lock
    /\ async_loop' = st.async_loop
    /\ connection_task' = st.connection_task
    /\ receive_task' = st.receive_task
    /\ writer' = st.writer
    /\ client_username' = st.client_username
    /\ thread' = st.thread
    /\ ready' = st.ready
    /\ stopping' = st.stopping
    /\ ctask' = st.ctask
    /\ rtask' = st.rtask
    /\ cmust' = st.cmust
    /\ rmust' = st.rmust
    /\ first_message' = st.first_message
    /\ transport' = st.transport
    /\ sent' = st.sent
    /\ nsends' = st.nsends
    /\ nlines' = st.nlines
    /\ openai_client' = st.openai_client
    /\ api_key_var' = st.api_key_var
    /\ ui' = st.ui
    /\ said' = st.said
    /\ UNCHANGED << vars, pvars, dvars >>

\* display_message and update_status: the text goes to the chat display or
\* to the status label, through the queue of the user interface
Say(st, kind, text) == [st EXCEPT !.said = Append(@, <<kind, text>>)]
Message(st, text) == Say(st, "message", text)
Status(st, text) == Say(st, "status", text)

\* a callback in a loop's ready queue: what it is (k), how a task is woken
\* (h), which task or transport it is about (n), and the text it carries (m)
Entry(k, h, n, m) == [ k |-> k, h |-> h, n |-> n, m |-> m ]

\* loop.is_running(): inside run_until_complete
Running(st, p) == p # 0 /\ st.thread[p] \in {"running", "gens"}

\* loop.is_closed()
Closed(st, p) == st.thread[p] = "finished"

\* the thread is over: its loop runs nothing any more
Over(st, p) == st.thread[p] \in {"finished", "ended", "dead"}

\* call_soon / call_soon_threadsafe on loop p; what is handed to a loop that
\* runs nothing any more is lost
Post(st, p, e) ==
    IF Over(st, p) THEN st ELSE [st EXCEPT !.ready[p] = Append(@, e)]

\* a wakeup of the task is already in its loop's ready queue
HasWake(st, t, k) == \E i \in 1..Len(st.ready[t]) : st.ready[t][i].k = k

\* if self.connect_lock.locked(): self.connect_lock.release()
ReleaseGate(st) == [st EXCEPT !.connect_lock = FALSE]

\* Task.cancel() on the receive task of thread r: a task waiting in readline
\* has that wait cancelled and is woken with CancelledError; a task not yet
\* started, or already woken, is marked and gets the error when it runs
CancelReceive(st, r) ==
    IF st.rtask[r] \in {"done", "stuck"} THEN st
    ELSE IF st.rtask[r] = "readline" /\ ~HasWake(st, r, "recv_wake")
    THEN Post(st, r, Entry("recv_wake", "cancel", 0, <<>>))
    ELSE [st EXCEPT !.rmust[r] = TRUE]

\* Task.cancel() on the connection task of thread q: the cancellation goes to
\* what the task waits for.  Out of wait_for(open_connection) the
\* CancelledError reaches client_connection_loop after `hops` further
\* iterations of the loop
CancelConnection(st, q, hops) ==
    IF st.ctask[q] \in {"none", "done"} \/ Over(st, q) THEN st
    ELSE IF st.ctask[q] = "new" \/ HasWake(st, q, "conn_wake")
    THEN [st EXCEPT !.cmust[q] = TRUE]
    ELSE CASE st.ctask[q] = "open" ->
                    Post(st, q, Entry("conn_wake", "cancel", hops, <<>>))
           [] st.ctask[q] \in {"recv", "c_recv"} -> CancelReceive(st, q)
           [] OTHER -> Post(st, q, Entry("conn_wake", "cancel", 0, <<>>))

\* client_connection_loop has returned or raised: the task is done, and
\* run_until_complete, if it is still waiting for it, stops the loop
TaskDone(st, t) ==
    LET s1 == [st EXCEPT !.ctask[t] = "done"]
    IN  IF st.thread[t] = "running"
        THEN Post(s1, t, Entry("stop_cb", "", 0, <<>>))
        ELSE s1

\* _perform_cleanup_resources from `self.writer = None` on, and then the
\* release of the gate that ends client_connection_loop
CleanupEnd(st, t) ==
    TaskDone(ReleaseGate([st EXCEPT !.writer = 0, !.receive_task = 0]), t)

\* _perform_cleanup_resources from `if self.writer and not
\* self.writer.is_closing()` on.  close() asks the transport's loop to drop
\* the connection; awaiting wait_closed() of another loop's writer raises
\* RuntimeError, which is caught; close() on a closed loop raises out of the
\* cleanup
CleanupWriter(st, t) ==
    LET w == st.writer
        s1 == [st EXCEPT !.transport[w] = "closing"]
    IN  IF w # 0 /\ st.transport[w] = "open"
        THEN IF Closed(st, w) THEN TaskDone(s1, t)
             ELSE IF w = t
             THEN [Post(s1, t, Entry("conn_lost", "", t, <<>>))
                        EXCEPT !.ctask[t] = "c_close"]
             ELSE CleanupEnd(Post(s1, w, Entry("conn_lost", "", w, <<>>)), t)
        ELSE CleanupEnd(st, t)

\* the finally clause of client_connection_loop: _perform_cleanup_resources
\* from its start.  Awaiting another loop's task raises RuntimeError, which
\* is caught; cancelling a waiting task of a closed loop raises out of the
\* cleanup
Cleanup(st, t) ==
    LET r == st.receive_task
    IN  IF r # 0 /\ st.rtask[r] # "done"
        THEN IF r = t
             THEN [CancelReceive(st, t) EXCEPT !.ctask[t] = "c_recv"]
             ELSE IF Closed(st, r) /\ st.rtask[r] = "readline"
             THEN TaskDone(st, t)
             ELSE CleanupWriter(CancelReceive(st, r), t)
        ELSE CleanupWriter(st, t)

\* the except clauses as they would be if every failure were reported as a
\* connection error
ExceptClauseAlike(st, how) ==
    Message(Status(st, <<"Connection error: ", "e">>),
            <<"--- Error connecting to ", "host:port", ": ", "e", " ---">>)

\* the except clauses of client_connection_loop: what the user is told when
\* the task leaves the try body with an exception
ExceptClause(st, how) ==
    CASE how = "refused" ->
            Message(Status(st, <<"Connection refused. Server offline?">>),
                    <<"--- Connection refused to ", "host:port", ". ---">>)
      [] how = "timeout" ->
            Message(Status(st, <<"Connection timed out.">>),
                    <<"--- Connection to ", "host:port", " timed out. ---">>)
      [] how = "cancel" -> Status(st, <<"Disconnecting (Loop Cancelled)...">>)
      [] OTHER ->
            Message(Status(st, <<"Connection error: ", "e">>),
                    <<"--- Error connecting to ", "host:port", ": ", "e", " ---">>)

\* client_connection_loop after open_connection returned, as it would be
\* if it left the gate as it is
OpenedKeepsGate(st, t) ==
    Post([Status(st, <<"Connected to ", "peer">>)
                                  EXCEPT !.writer = t, !.transport[t] = "open",
                                  !.is_connected = TRUE, !.is_connecting = FALSE,
                                  !.receive_task = t, !.rtask[t] = "new",
                                  !.ctask[t] = "recv"],
         t, Entry("recv_wake", "start", 0, <<>>))

\* client_connection_loop after open_connection returned
Opened(st, t) ==
    Post([Status(ReleaseGate(st), <<"Connected to ", "peer">>)
                                  EXCEPT !.writer = t, !.transport[t] = "open",
                                  !.is_connected = TRUE, !.is_connecting = FALSE,
                                  !.receive_task = t, !.rtask[t] = "new",
                                  !.ctask[t] = "recv"],
         t, Entry("recv_wake", "start", 0, <<>>))

\* the connection task of thread t is resumed: h is "start" for its first
\* step, else the outcome of what it waited for
ConnWake(st, t, h) ==
    LET how == IF st.cmust[t] THEN "cancel" ELSE h
        s1 == [st EXCEPT !.cmust[t] = FALSE]
    IN  CASE st.ctask[t] = "new" ->
                IF how = "cancel" THEN TaskDone(s1, t)
                ELSE Status([s1 EXCEPT !.connection_task = t, !.ctask[t] = "open"],
                            <<"Opening connection to ", "host:port", "...">>)
          [] st.ctask[t] = "open" ->
                IF how = "ok" THEN Opened(s1, t) ELSE Cleanup(ExceptClause(s1, how), t)
          [] st.ctask[t] = "recv" ->
                Cleanup(IF how = "cancel" THEN ExceptClause(s1, how) ELSE s1, t)
          [] st.ctask[t] = "c_recv" -> CleanupWriter(s1, t)
          [] st.ctask[t] = "c_close" ->
                IF how = "cancel" THEN TaskDone(s1, t) ELSE CleanupEnd(s1, t)
          [] OTHER -> s1

\* handle_received_data_async ends; how = "cancel" when the task was
\* cancelled before it ran.  The connection task waiting for it is woken
RecvDone(st, t, how) ==
    LET s1 == [st EXCEPT !.rtask[t] = "done"]
    IN  IF st.ctask[t] \in {"recv", "c_recv"} /\ ~HasWake(st, t, "conn_wake")
        THEN Post(s1, t, Entry("conn_wake", how, 0, <<>>))
        ELSE s1

\* `while self.reader:` and the readline it guards; readline on another
\* loop's reader raises RuntimeError, which ends the task
RecvLoop(st, t) ==
    IF st.writer = t THEN [st EXCEPT !.rtask[t] = "readline"]
    ELSE IF st.writer = 0 THEN RecvDone(st, t, "ok")
    ELSE RecvDone(Message(st, <<"--- Error receiving data: ", "e", " ---">>),
                  t, "ok")

\* s.startswith(prefix)
StartsWith(s, prefix) ==
    Len(s) >= Len(prefix) /\ SubSeq(s, 1, Len(prefix)) = prefix

\* _update_openai_client: a client is made from the key in the entry unless
\* the key is blank or the placeholder
UpdateOpenaiClient(st) ==
    [st EXCEPT !.openai_client =
        Strip(st.api_key_var) # <<>>
        /\ Strip(st.api_key_var) # <<"INSERT YOUR KEY HERE">>]

\* the status update_ui_state sets, which it does only when the client is
\* neither connected nor connecting
UiStatus(st) ==
    IF st.is_connected \/ st.is_connecting THEN st
    ELSE IF st.openai_client
    THEN Status(st, <<"Disconnected. OpenAI Key Ready.">>)
    ELSE Status(st, <<"Disconnected. OpenAI Key Missing.">>)

\* what the language model may answer for a message that needs translation
Translated == <<"t", "r">>

\* translate_message_if_needed as it would be if it returned nothing when
\* the request fails
TranslateOrNothing(st, message, tr) ==
    IF ~st.openai_client
       \/ StartsWith(message, <<"[Server]">>)
       \/ StartsWith(message, <<"[">> \o st.client_username \o <<"]">>)
    THEN [st |-> st, text |-> message]
    ELSE CASE tr = "ok" -> [st |-> st, text |-> Strip(Translated)]
           [] tr = "same" -> [st |-> st, text |-> Strip(message)]
           [] OTHER ->
                [st |-> Message(st, <<"--- Translation error: ", "e", " ---">>),
                 text |-> <<>>]

\* translate_message_if_needed: tr is what becomes of the request to the
\* language model.  The result is the state after it and the text to show
Translate(st, message, tr) ==
    IF ~st.openai_client
       \/ StartsWith(message, <<"[Server]">>)
       \/ StartsWith(message, <<"[">> \o st.client_username \o <<"]">>)
    THEN [st |-> st, text |-> message]
    ELSE CASE tr = "ok" -> [st |-> st, text |-> Strip(Translated)]
           [] tr = "same" -> [st |-> st, text |-> Strip(message)]
           [] tr = "auth" ->
                [st |-> UiStatus(UpdateOpenaiClient(
                            [Message(st, <<"--- Translation failed: Invalid OpenAI API Key. ---">>)
                                EXCEPT !.openai_client = FALSE])),
                 text |-> message]
           [] tr = "api" ->
                [st |-> Message(st, <<"--- Translation error: ", "e", " ---">>),
                 text |-> message]
           [] OTHER ->
                [st |-> Message(st, <<"--- Unexpected translation error: ", "e", " ---">>),
                 text |-> message]

\* one line arrived: the body of the loop of handle_received_data_async
RecvLine(st, t, data, tr) ==
    LET message == Strip(data)
        p == st.async_loop
        done == Translate(st, message, tr)
    IN  IF message = <<>> THEN RecvLoop(st, t)
        ELSE IF st.first_message[t] /\ StartsWithWelcome(message)
        THEN RecvLoop(Message([(IF Running(st, p)
                                THEN Post(st, p, Entry("send_submit", "", 0,
                                                       st.client_username))
                                ELSE st)
                                    EXCEPT !.first_message[t] = FALSE],
                              <<"Username sent to server.">>), t)
        ELSE RecvLoop([Message(done.st, done.text)
                            EXCEPT !.first_message[t] = FALSE], t)

\* the receive task of thread t is resumed
RecvWake(st, t, h, data, tr) ==
    LET how == IF st.rmust[t] THEN "cancel" ELSE h
        s1 == [st EXCEPT !.rmust[t] = FALSE]
    IN  CASE st.rtask[t] = "new" ->
                IF how = "cancel" THEN RecvDone(s1, t, "cancel")
                ELSE RecvLoop(s1, t)
          [] st.rtask[t] = "readline" ->
                CASE how = "line" -> RecvLine(s1, t, data, tr)
                  [] how = "eof" ->
                        RecvDone(Message(s1, <<"--- Server closed the connection. ---">>),
                                 t, "ok")
                  [] how = "reset" ->
                        RecvDone(Message(s1, <<"--- Connection to server lost (reset). ---">>),
                                 t, "ok")
                  [] OTHER -> RecvDone(s1, t, "ok")
          [] OTHER -> s1

\* the transport of thread w is dropped by its loop: the reader gets end of
\* stream and wait_closed() returns
ConnLost(st, w) ==
    LET s1 == [st EXCEPT !.transport[w] = "closed"]
        s2 == IF st.rtask[w] = "readline" /\ ~HasWake(st, w, "recv_wake")
              THEN Post(s1, w, Entry("recv_wake", "eof", 0, <<>>))
              ELSE s1
    IN  IF st.ctask[w] = "c_close" /\ ~HasWake(st, w, "conn_wake")
        THEN Post(s2, w, Entry("conn_wake", "ok", 0, <<>>))
        ELSE s2

\* _schedule_stop
ScheduleStop(st) ==
    LET p == st.async_loop
        q == st.connection_task
        s1 == IF q # 0 /\ st.ctask[q] # "done"
              THEN Post(st, p, Entry("cancel", "", q, <<>>))
              ELSE st
        s2 == IF Running(st, p)
              THEN Post(s1, p, Entry("stop", "", 0, <<>>))
              ELSE st
    IN  ReleaseGate(Status([s2 EXCEPT !.is_connected = FALSE,
                                      !.is_connecting = FALSE],
                           <<"Disconnecting (Scheduled Stop)...">>))

\* _send_message_async as it would be if it wrote the message alone
SendAsyncBare(st, message, o) ==
    LET w == st.writer
    IN  IF w # 0 /\ st.transport[w] = "open"
        THEN [st EXCEPT !.sent[w] = Append(@, message)]
        ELSE st

\* _send_message_async: drain() returns (o = "ok") or raises
SendAsync(st, message, o) ==
    LET w == st.writer
        p == st.async_loop
        s1 == [st EXCEPT !.sent[w] = Append(@, message \o <<NL>>)]
        s2 == IF o = "reset"
              THEN Message(s1, <<"--- Connection lost while sending. ---">>)
              ELSE Message(s1, <<"--- Error sending data: ", "e", " ---">>)
    IN  IF w # 0 /\ st.transport[w] = "open"
        THEN IF o = "ok" THEN s1
             ELSE IF Running(st, p)
             THEN Post(s2, p, Entry("schedule_stop", "", 0, <<>>))
             ELSE s2
        ELSE st

\* one callback of loop t runs
Run(st, t, e, hops, o, tr) ==
    CASE e.k = "conn_wake" ->
            IF e.n > 0
            THEN Post(st, t, Entry("conn_wake", e.h, e.n - 1, <<>>))
            ELSE ConnWake(st, t, e.h)
      [] e.k = "recv_wake" -> RecvWake(st, t, e.h, e.m, tr)
      [] e.k = "conn_lost" -> ConnLost(st, e.n)
      [] e.k = "send_submit" -> Post(st, t, Entry("send", "", 0, e.m))
      [] e.k = "send" -> SendAsync(st, e.m, o)
      [] e.k = "schedule_stop" -> ScheduleStop(st)
      [] e.k = "cancel" -> CancelConnection(st, e.n, hops)
      [] e.k = "gens" ->
            IF st.thread[t] = "gens"
            THEN Post(st, t, Entry("stop_cb", "", 0, <<>>))
            ELSE st
      [] OTHER -> [st EXCEPT !.stopping[t] = TRUE]

\* the thread connect_disconnect would start next
NextThread(st) ==
    CHOOSE t \in Threads :
        st.thread[t] = "unborn" /\ \A u \in 1..(t - 1) : st.thread[u] # "unborn"

\* str(e) of the ValueError the port check raises
PortError(port_str) ==
    IF port_str # <<>> /\ IntOf(port_str, 0) >= 0
    THEN <<"Port out of range (1-65535)">>
    ELSE <<"invalid literal for int() with base 10: '">> \o port_str \o <<"'">>

\* what connect_disconnect tells the user when it turns the fields down: the
\* first check that fails decides
Rejected(st, name, host, port_str) ==
    IF name = <<>>
    THEN Status(Message(st, <<"Please enter a username first.">>),
                <<"Username required">>)
    ELSE IF host = <<>>
    THEN Status(Message(st, <<"Server Host cannot be empty.">>),
                <<"Host required">>)
    ELSE Status(Message(st, <<"Invalid Port: '">> \o port_str \o <<"'. ">>
                                \o PortError(port_str)),
                <<"Invalid Port">>)

\* connect_disconnect as it would be if it did not try the gate first
ConnectDisconnectUngated(st, name, host, port_str) ==
    IF st.is_connected
    THEN LET s1 == Status([st EXCEPT !.is_connected = FALSE],
                          <<"Disconnecting...">>)
         IN  IF Running(st, st.async_loop)
             THEN Post(s1, st.async_loop, Entry("schedule_stop", "", 0, <<>>))
             ELSE s1
    ELSE IF ~st.is_connecting
    THEN LET s1 == [st EXCEPT !.client_username = Strip(name)]
         IN  IF Strip(name) = <<>> \/ Strip(host) = <<>> \/ ~PortOk(Strip(port_str))
             THEN Rejected(s1, Strip(name), Strip(host), Strip(port_str))
             ELSE [Status(s1, <<"Connecting to ", "host:port", "...">>)
                        EXCEPT !.is_connecting = TRUE, !.connect_lock = TRUE,
                               !.thread[NextThread(st)] = "start"]
    ELSE st

\* connect_disconnect: the gate is tried without blocking; it is given back
\* on return except when a background thread was started
ConnectDisconnect(st, name, host, port_str) ==
    IF st.connect_lock THEN st
    ELSE IF st.is_connected
    THEN LET s1 == Status([st EXCEPT !.is_connected = FALSE],
                          <<"Disconnecting...">>)
         IN  IF Running(st, st.async_loop)
             THEN Post(s1, st.async_loop, Entry("schedule_stop", "", 0, <<>>))
             ELSE s1
    ELSE IF ~st.is_connecting
    THEN LET s1 == [st EXCEPT !.client_username = Strip(name)]
         IN  IF Strip(name) = <<>> \/ Strip(host) = <<>> \/ ~PortOk(Strip(port_str))
             THEN Rejected(s1, Strip(name), Strip(host), Strip(port_str))
             ELSE [Status(s1, <<"Connecting to ", "host:port", "...">>)
                        EXCEPT !.is_connecting = TRUE, !.connect_lock = TRUE,
                               !.thread[NextThread(st)] = "start"]
    ELSE st

\* a request reaches connect_disconnect with these texts in the fields: a
\* click on the connect/disconnect button, or a call.  That the button is
\* greyed out while is_connecting was set at the last update_ui_state is
\* left out.  A request that would start one thread more than MaxThreads is
\* left out as well
Click(name, host, port_str) ==
    /\ \/ \E t \in Threads : thread[t] = "unborn"
       \/ connect_lock \/ is_connected \/ is_connecting
    /\ CBecomes(ConnectDisconnect(CCur, name, host, port_str))

\* send_message_event as it would be if it did not look at is_connected
SendEventUnchecked(text) ==
    LET message == Strip(text)
    IN  /\ nsends < MaxSends
        /\ CBecomes(
               IF message # <<>> /\ Running(CCur, async_loop)
               THEN Post([CCur EXCEPT !.nsends = @ + 1], async_loop,
                         Entry("send_submit", "", 0, message))
               ELSE IF ~Running(CCur, async_loop)
               THEN Message(CCur, <<"Connection loop not active.">>)
               ELSE CCur)

\* send_message_event: the user sends the text of the message field
SendEvent(text) ==
    LET message == Strip(text)
    IN  /\ nsends < MaxSends
        /\ CBecomes(
               IF message # <<>> /\ is_connected /\ Running(CCur, async_loop)
               THEN Post([CCur EXCEPT !.nsends = @ + 1], async_loop,
                         Entry("send_submit", "", 0, message))
               ELSE IF ~is_connected
               THEN Message(CCur, <<"Not connected to server.">>)
               ELSE IF ~Running(CCur, async_loop)
               THEN Message(CCur, <<"Connection loop not active.">>)
               ELSE CCur)

\* _run_async_client_manual_loop up to run_until_complete: the thread makes
\* its loop, publishes it and starts client_connection_loop as a task.  Only
\* the first MaxRunning threads are followed past their start
ThreadStart(t) ==
    /\ thread[t] = "start"
    /\ t <= MaxRunning
    /\ CBecomes([CCur EXCEPT !.thread[t] = "running", !.async_loop = t,
                             !.ctask[t] = "new",
                             !.ready[t] = << Entry("conn_wake", "start", 0, <<>>) >>])

\* how many iterations of the loop a cancellation takes to come out of
\* wait_for(open_connection)
Hops == {0, 2}

RECURSIVE RunOnce(_, _, _, _, _, _)
\* the first n callbacks of loop t's ready queue run one after the other
RunOnce(st, t, n, hops, o, tr) ==
    IF n = 0 THEN st
    ELSE RunOnce(Run([st EXCEPT !.ready[t] = Tail(@)], t, Head(st.ready[t]),
                     hops, o, tr),
                 t, n - 1, hops, o, tr)

\* what may become of the drain of a send, and of a request to the language
\* model, in an iteration of loop t that has one to make
SendOutcomes(t) ==
    IF HasWake(CCur, t, "send") THEN {"ok", "reset", "error"} ELSE {"ok"}
TranslateOutcomes(t) ==
    IF openai_client /\ \E i \in 1..Len(ready[t]) :
                            ready[t][i].k = "recv_wake" /\ ready[t][i].h = "line"
    THEN {"ok", "same", "auth", "api", "error"}
    ELSE {"ok"}
HopsOf(t) == IF HasWake(CCur, t, "cancel") THEN Hops ELSE {0}

\* one iteration of the loop of thread t: it runs the callbacks that were
\* ready when it began, and not those they make ready; a loop told to stop
\* ends after the iteration
RunCallback(t) ==
    /\ Running(CCur, t)
    /\ ready[t] # <<>>
    /\ ~stopping[t]
    /\ \E hops \in HopsOf(t), o \in SendOutcomes(t), tr \in TranslateOutcomes(t) :
        CBecomes(RunOnce(CCur, t, Len(ready[t]), hops, o, tr))

\* the thread of t is over in `state`: its loop runs nothing any more, so
\* what is ready is dropped and a task that was ready to go on is stuck
Ended(st, t, state) ==
    [st EXCEPT !.thread[t] = state, !.ready[t] = <<>>, !.stopping[t] = FALSE,
               !.cmust[t] = FALSE, !.rmust[t] = FALSE,
               !.first_message[t] = TRUE,
               !.ctask[t] = IF @ = "new" \/ HasWake(st, t, "conn_wake")
                            THEN "stuck" ELSE @,
               !.rtask[t] = IF @ = "new" \/ HasWake(st, t, "recv_wake")
                            THEN "stuck" ELSE @]

\* the end of _run_async_client_manual_loop: self.async_loop = None and what
\* follows
ThreadTail(st, t, state) ==
    LET s1 == [Ended(st, t, state) EXCEPT !.async_loop = 0,
                                          !.is_connecting = FALSE]
    IN  IF s1.is_connected THEN s1
        ELSE ReleaseGate(Status(s1, <<"Disconnected (Loop Ended)">>))

\* run_until_complete(client_connection_loop) returns or raises because the
\* loop was stopped, and the finally clause begins.  It works on
\* self.async_loop: its own loop runs shutdown_asyncgens; another thread's
\* running loop refuses both that and close(), which ends the thread there;
\* with None the loop is left as it is
LoopExit(t) ==
    /\ thread[t] = "running"
    /\ stopping[t]
    /\ LET s0 == [CCur EXCEPT !.stopping[t] = FALSE]
           st == IF ctask[t] = "done" THEN s0
                 ELSE Status(s0, <<"Async loop error: ", "e">>)
       IN  CBecomes(
               IF async_loop = t
               THEN Post([st EXCEPT !.thread[t] = "gens"], t,
                         Entry("gens", "", 0, <<>>))
               ELSE IF async_loop = 0 THEN ThreadTail(st, t, "ended")
               ELSE Ended(st, t, "dead"))

\* run_until_complete(shutdown_asyncgens()) returns; the thread closes
\* self.async_loop and finishes.  None or another thread's running loop in
\* self.async_loop ends the thread with an exception before that
ThreadEnd(t) ==
    /\ thread[t] = "gens"
    /\ stopping[t]
    /\ LET st == [CCur EXCEPT !.stopping[t] = FALSE]
       IN  CBecomes(
               IF async_loop = t THEN ThreadTail(st, t, "finished")
               ELSE Ended(st, t, "dead"))

\* open_connection under wait_for ends: the transport opens, or the
\* connection is refused, times out or fails otherwise
OpenResult(t, o) ==
    /\ Running(CCur, t)
    /\ ~stopping[t]
    /\ ctask[t] = "open"
    /\ ~HasWake(CCur, t, "conn_wake")
    /\ CBecomes(Post(CCur, t, Entry("conn_wake", o, 0, <<>>)))

\* the server's end of the connection of thread t sends a line, closes the
\* stream or resets it while the receive task waits in readline
ReceiveUpTo(t, h, data, max) ==
    /\ Running(CCur, t)
    /\ ~stopping[t]
    /\ rtask[t] = "readline"
    /\ transport[t] = "open"
    /\ ~HasWake(CCur, t, "recv_wake")
    /\ nlines < max
    /\ CBecomes(Post([CCur EXCEPT !.nlines = @ + 1], t,
                     Entry("recv_wake", h, 0, data)))

Receive(t, h, data) == ReceiveUpTo(t, h, data, MaxLines)

NextClient ==
    \/ \E f \in ClickInputs : Click(f.name, f.host, f.port)
    \/ \E text \in SendTexts : SendEvent(text)
    \/ \E t \in Threads :
        \/ ThreadStart(t)
        \/ RunCallback(t)
        \/ LoopExit(t)
        \/ ThreadEnd(t)
        \/ \E o \in {"ok", "refused", "timeout", "error"} : OpenResult(t, o)
        \/ \E data \in RecvLines : Receive(t, "line", data)
        \/ \E h \in {"eof", "reset"} : Receive(t, h, <<>>)

SpecClient == Init /\ [][NextClient]_cvars

\* set_api_key: the user sets the key that is in the entry
SetApiKey(key) ==
    LET s1 == UpdateOpenaiClient([CCur EXCEPT !.api_key_var = key])
    IN  /\ api_key_var = <<>>
        /\ CBecomes(
               IF s1.openai_client THEN Status(s1, <<"OpenAI API Key Set">>)
               ELSE IF ~is_connected /\ ~is_connecting
               THEN Status(Status(s1, <<"OpenAI API Key Cleared or Invalid">>),
                           <<"Disconnected. OpenAI Key Missing.">>)
               ELSE Status(s1, <<"OpenAI API Key Cleared or Invalid">>))

\* a request for the first connection, with whatever is in the fields, or a
\* request to end it
SessionClick(name, host, port_str) ==
    /\ thread[1] = "unborn" \/ is_connected
    /\ Click(name, host, port_str)

\* the client through its first session: the fields and the key are tried
\* out, and the server sends up to MaxSessionLines lines
NextSession ==
    \/ \E f \in FieldInputs : SessionClick(f.name, f.host, f.port)
    \/ \E key \in KeyTexts : SetApiKey(key)
    \/ \E text \in SendTexts : SendEvent(text)
    \/ \E t \in Threads :
        \/ ThreadStart(t)
        \/ RunCallback(t)
        \/ LoopExit(t)
        \/ ThreadEnd(t)
        \/ \E o \in {"ok", "refused", "timeout", "error"} : OpenResult(t, o)
        \/ \E data \in SessionLines : ReceiveUpTo(t, "line", data, MaxSessionLines)
        \/ \E h \in {"eof", "reset"} : ReceiveUpTo(t, h, <<>>, MaxSessionLines)

SpecSession == Init /\ [][NextSession]_cvars

\* the client with the server's lines left out: the user clicks and sends,
\* connections open or fail, and the server may end or reset a stream
NextGate ==
    \/ \E f \in ClickInputs : Click(f.name, f.host, f.port)
    \/ SendEvent(<<"h", "i">>)
    \/ \E t \in Threads :
        \/ ThreadStart(t)
        \/ RunCallback(t)
        \/ LoopExit(t)
        \/ ThreadEnd(t)
        \/ \E o \in {"ok", "refused", "timeout", "error"} : OpenResult(t, o)
        \/ \E h \in {"eof", "reset"} : ReceiveUpTo(t, h, <<>>, 1)

SpecGate == Init /\ [][NextGate]_cvars

\* ---- the gate's check-then-release sites, statement by statement
\* connect_disconnect up to its finally clause, on the user interface
\* thread: a call that took the gate and started no thread still holds it
\* (should_release is True)
ConnectDisconnectBody(st, name, host, port_str) ==
    LET s1 == ConnectDisconnect(st, name, host, port_str)
    IN  IF st.connect_lock \/ s1.connect_lock THEN s1
        ELSE [s1 EXCEPT !.connect_lock = TRUE, !.ui = "finally"]

\* a request reaches connect_disconnect while the user interface thread is
\* in no handler
ClickBody(name, host, port_str) ==
    /\ ui = "idle"
    /\ \/ \E t \in Threads : thread[t] = "unborn"
       \/ connect_lock \/ is_connected \/ is_connecting
    /\ CBecomes(ConnectDisconnectBody(CCur, name, host, port_str))

\* finally: if should_release and self.connect_lock.locked()
FinallyCheck ==
    /\ ui = "finally"
    /\ CBecomes([CCur EXCEPT !.ui = IF connect_lock THEN "release" ELSE "idle"])

\* self.connect_lock.release(): on a lock that is not locked it raises
\* RuntimeError and the lock stays as it is
FinallyRelease ==
    /\ ui = "release"
    /\ CBecomes([ReleaseGate(CCur) EXCEPT !.ui = "idle"])

\* on_closing after its first if statement: the disconnect logic, with
\* _schedule_stop called on the user interface thread, then the window is
\* destroyed and no handler runs any more
ClosingRest(st) ==
    LET s1 == IF st.is_connected \/ st.is_connecting
              THEN IF Running(st, st.async_loop) THEN ScheduleStop(st)
                   ELSE Status([st EXCEPT !.is_connected = FALSE,
                                          !.is_connecting = FALSE],
                               <<"Disconnected">>)
              ELSE st
    IN  [s1 EXCEPT !.ui = "closed"]

\* on_closing: if self.connect_lock.locked()
OnClosing ==
    /\ ui = "idle"
    /\ CBecomes(IF connect_lock THEN [CCur EXCEPT !.ui = "closing_release"]
                ELSE ClosingRest(CCur))

\* on_closing: self.connect_lock.release() and what follows; the
\* RuntimeError of a lock that is not locked ends the handler there
OnClosingRelease ==
    /\ ui = "closing_release"
    /\ CBecomes(IF connect_lock THEN ClosingRest(ReleaseGate(CCur))
                ELSE [CCur EXCEPT !.ui = "idle"])

\* the client with the handlers of the user interface thread taken
\* statement by statement at the check of the gate and at its release, so
\* that the background thread can run between the two
NextRace ==
    \/ \E f \in ClickInputs : ClickBody(f.name, f.host, f.port)
    \/ FinallyCheck
    \/ FinallyRelease
    \/ OnClosing
    \/ OnClosingRelease
    \/ \E t \in Threads :
        \/ ThreadStart(t)
        \/ RunCallback(t)
        \/ LoopExit(t)
        \/ ThreadEnd(t)
        \/ \E o \in {"ok", "refused", "timeout", "error"} : OpenResult(t, o)
        \/ \E h \in {"eof", "reset"} : ReceiveUpTo(t, h, <<>>, 1)

SpecRace == Init /\ [][NextRace]_cvars

\* the loop of thread t has something to run: RunCallback(t) can be taken,
\* and taking it changes the state
RunEnabled(t) == Running(CCur, t) /\ ready[t] # <<>> /\ ~stopping[t]

\* a running loop runs what is ready: weak fairness of RunCallback(t), with
\* its enabling condition written out
LoopRuns(t) == []<>(~RunEnabled(t)) \/ []<><<RunCallback(t)>>_cvars

\* a step of thread t outside its loop's iterations: the thread gets to its
\* next step, or open_connection under wait_for ends one way or the other
ThreadStep(t) ==
    \/ ThreadStart(t)
    \/ LoopExit(t)
    \/ ThreadEnd(t)
    \/ \E o \in {"ok", "refused", "timeout", "error"} : OpenResult(t, o)

\* the program is kept going: no thread stops while it has a step to take.
\* What the user and the server do is bounded, so no thread can be kept
\* waiting forever by the steps of another
Scheduled == \A t \in Threads : LoopRuns(t) /\ WF_cvars(ThreadStep(t))

SpecClientLive == SpecClient /\ Scheduled

SpecGateLive == SpecGate /\ Scheduled

\* ------------------------------------------------------------------ p2p
\* lines a peer may send: text, text with blanks around it, blank lines, and
\* a last line without its newline
PeerLines ==
    { <<"h", "i", NL>>, <<" ", "y", "o", " ", NL>>, <<NL>>, <<" ", NL>>, <<"z">> }

RECURSIVE SeqsUpTo(_, _)
\* the sequences over S of length n at most
SeqsUpTo(S, n) ==
    IF n = 0 THEN { <<>> }
    ELSE LET shorter == SeqsUpTo(S, n - 1)
         IN  shorter \cup { Append(q, x) : q \in shorter, x \in S }

\* print
Printed(out, kind, text) == Append(out, << kind, text >>)

\* the finally clause of handle_received_data
PeerFinally(out) ==
    /\ p2p_out' = Printed(out, "stopping", <<>>)
    /\ p2p_closing' = TRUE
    /\ p2p_closes' = IF p2p_closing THEN p2p_closes ELSE p2p_closes + 1
    /\ p2p_pc' = "done"

\* the body of the loop as it would be if it did not skip blank lines
PeerShownAll(out, data) ==
    Printed(Printed(out, "received", Strip(data)), "prompt", <<>>)

\* the body of the loop of handle_received_data for the line data: what has
\* been printed after it
PeerShown(out, data) ==
    LET message == Strip(data)
    IN  IF message = <<>> THEN out
        ELSE Printed(Printed(out, "received", message), "prompt", <<>>)

\* handle_received_data is called with a reader that will return lines and
\* then end of stream, and a writer; it runs up to its first readline
PeerCall(lines, is_closing) ==
    /\ p2p_pc = "idle"
    /\ p2p_pc' = "readline"
    /\ p2p_lines' = lines
    /\ p2p_closing' = is_closing
    /\ p2p_out' = Printed(p2p_out, "established", <<>>)
    /\ UNCHANGED << p2p_calls, p2p_closes >>
    /\ UNCHANGED << vars, cvars, dvars >>

\* readline returns the next line, and the handler runs up to its next
\* readline
PeerReadLine ==
    /\ p2p_pc = "readline"
    /\ p2p_calls < Len(p2p_lines)
    /\ p2p_calls' = p2p_calls + 1
    /\ p2p_out' = PeerShown(p2p_out, p2p_lines[p2p_calls + 1])
    /\ UNCHANGED << p2p_pc, p2p_lines, p2p_closing, p2p_closes >>
    /\ UNCHANGED << vars, cvars, dvars >>

\* readline returns b'': the peer has closed the stream
PeerReadEof ==
    /\ p2p_pc = "readline"
    /\ p2p_calls = Len(p2p_lines)
    /\ p2p_calls' = p2p_calls + 1
    /\ PeerFinally(Printed(p2p_out, "closed by peer", <<>>))
    /\ UNCHANGED p2p_lines
    /\ UNCHANGED << vars, cvars, dvars >>

\* the readline the handler waits in raises: the task is cancelled, the
\* connection is reset, or something else goes wrong
PeerRaise(how) ==
    /\ p2p_pc = "readline"
    /\ PeerFinally(Printed(p2p_out, how, <<>>))
    /\ UNCHANGED << p2p_lines, p2p_calls >>
    /\ UNCHANGED << vars, cvars, dvars >>

\* what a peer may send before it closes the stream: only its last line may
\* lack the newline
PeerInputs ==
    { q \in SeqsUpTo(PeerLines, MaxPeerLines) :
        \A i \in 1..(Len(q) - 1) : q[i][Len(q[i])] = NL }

NextP2P ==
    \/ \E lines \in PeerInputs, is_closing \in BOOLEAN :
            PeerCall(lines, is_closing)
    \/ PeerReadLine
    \/ PeerReadEof
    \/ \E how \in {"cancelled", "reset", "error"} : PeerRaise(how)

SpecP2P == Init /\ [][NextP2P]_pvars

\* ------------------------------------------------------------------ record store
\* MODULE_HEADERS
MODULE_HEADERS ==
    [ User |-> <<"User_ID", "User_Name", "User_Username", "User_Phone",
                 "User_Privlege", "User_Email">>,
      House |-> <<"House_ID", "House_Name", "House_Address", "House_GPS",
                  "House_Owner", "House_Occupant">>,
      Room |-> <<"Room_ID", "Room_Name", "Room_Floor", "Room_Size",
                 "Room_House", "Room_Type">>,
      Device |-> <<"Device_ID", "Device_Type", "Device_Name", "Device_Room",
                   "Device_Settings", "Device_Data", "Device_Status">> ]

Headers(m) == { MODULE_HEADERS[m][i] : i \in 1..Len(MODULE_HEADERS[m]) }
IdField(m) == MODULE_HEADERS[m][1]

\* the fields the functions of a module store as JSON text, in the order
\* read_<module> decodes them, and the type update_<module> encodes
JsonFields(m) ==
    CASE m = "User" -> <<"User_Privlege">>
      [] m = "House" -> <<"House_Owner", "House_Occupant">>
      [] m = "Room" -> <<"Room_Type">>
      [] OTHER -> <<"Device_Type", "Device_Settings", "Device_Status">>
JsonType(m) == IF m = "House" THEN "list" ELSE "dict"
IsJson(m, f) == \E i \in 1..Len(JsonFields(m)) : JsonFields(m)[i] = f

\* Python values: a str is its characters in pieces, a dict here has one
\* key and one value, a list holds strs
PyStr(v) == [t |-> "str", v |-> v]
PyDict(k, x) == [t |-> "dict", v |-> <<k, x>>]
PyList(items) == [t |-> "list", v |-> items]
PyNone == [t |-> "none", v |-> <<>>]

RECURSIVE Items(_, _)
\* the items of a list written one after the other, each between quotes q
Items(items, q) ==
    IF items = <<>> THEN <<>>
    ELSE IF Len(items) = 1 THEN <<q, Head(items), q>>
    ELSE <<q, Head(items), q, ",">> \o Items(Tail(items), q)

\* the text of a value between quotes q: json.dumps with the double quote,
\* str() of a dict or a list with the single quote
Text(x, q) ==
    CASE x.t = "dict" -> <<"{", q, x.v[1], q, ":", q, x.v[2], q, "}">>
      [] x.t = "list" -> <<"[">> \o Items(x.v, q) \o <<"]">>
      [] x.t = "none" -> IF q = "\"" THEN <<"null">> ELSE <<>>
      [] OTHER -> IF q = "\"" THEN <<q>> \o x.v \o <<q>> ELSE x.v

\* json.dumps
Dumps(x) == PyStr(Text(x, "\""))

\* what csv writes for a value and reads back: the str itself, '' for None,
\* str() of anything else
Cell(x) == PyStr(Text(x, "'"))

\* json.loads of a text: the value, or ok = FALSE for JSONDecodeError
Loads(text) ==
    IF Len(text) = 9 /\ text[1] = "{" /\ text[9] = "}" /\ text[5] = ":"
       /\ text[2] = "\"" /\ text[4] = "\"" /\ text[6] = "\"" /\ text[8] = "\""
    THEN [ok |-> TRUE, val |-> PyDict(text[3], text[7])]
    ELSE IF text = <<"[", "]">>
    THEN [ok |-> TRUE, val |-> PyList(<<>>)]
    ELSE IF Len(text) = 5 /\ text[1] = "[" /\ text[5] = "]"
            /\ text[2] = "\"" /\ text[4] = "\""
    THEN [ok |-> TRUE, val |-> PyList(<<text[3]>>)]
    ELSE IF text = <<"null">>
    THEN [ok |-> TRUE, val |-> PyNone]
    ELSE IF Len(text) >= 2 /\ text[1] = "\"" /\ text[Len(text)] = "\""
    THEN [ok |-> TRUE, val |-> PyStr(SubSeq(text, 2, Len(text) - 1))]
    ELSE [ok |-> FALSE, val |-> PyNone]

\* read_module_csv: the row of the file as DictReader gives it, every value
\* a str; ok = FALSE stands for None (no file, or next() on a file that has
\* its header only)
read_module_csv(files, m, id) ==
    IF files[m][id].exists /\ files[m][id].rows # <<>>
    THEN [ok |-> TRUE, data |-> files[m][id].rows[1]]
    ELSE [ok |-> FALSE, data |-> [f \in Headers(m) |-> PyNone]]

RECURSIVE DecodeFrom(_, _)
\* the try block of read_<module>: json.loads field by field, given up at
\* the first text that does not decode
DecodeFrom(data, fields) ==
    IF fields = <<>> THEN data
    ELSE LET r == Loads(data[Head(fields)].v)
         IN  IF r.ok
             THEN DecodeFrom([data EXCEPT ![Head(fields)] = r.val], Tail(fields))
             ELSE data

\* read_user, read_house, read_room, read_device
Read(files, m, id) ==
    LET r == read_module_csv(files, m, id)
    IN  IF r.ok THEN [ok |-> TRUE, data |-> DecodeFrom(r.data, JsonFields(m))]
        ELSE r

\* the ids in the master file of a module
MasterIds(master, m) == { master[m][i] : i \in 1..Len(master[m]) }

\* write_module_csv: the file named after the id holds the header and one
\* row
write_module_csv(files, m, id, data) ==
    [files EXCEPT ![m][id] =
        [exists |-> TRUE, rows |-> << [f \in Headers(m) |-> Cell(data[f])] >>]]

\* what create_<module> hands to write_module_csv
Created(m, id, row) ==
    [f \in Headers(m) |->
        IF f = IdField(m) THEN PyStr(<<id>>)
        ELSE IF IsJson(m, f) THEN Dumps(row[f])
        ELSE row[f]]

\* what update_<module> hands to update_module_csv: a JSON field given as a
\* dict (a list for a house) is encoded
EncodedChanges(m, changes) ==
    [k \in DOMAIN changes |->
        IF IsJson(m, k) /\ changes[k].t = JsonType(m) THEN Dumps(changes[k])
        ELSE changes[k]]

\* update_module_csv: nothing without the file, and nothing when the file
\* cannot be read (None has no update); else the file is opened for writing,
\* which empties it, and the header and the merged row are written; a key
\* that is no field makes writerow raise after the header
update_module_csv(files, m, id, updated_data) ==
    IF ~files[m][id].exists THEN files
    ELSE IF ~read_module_csv(files, m, id).ok THEN files
    ELSE IF ~(DOMAIN updated_data \subseteq Headers(m))
    THEN [files EXCEPT ![m][id].rows = <<>>]
    ELSE [files EXCEPT ![m][id].rows =
            << [f \in Headers(m) |->
                    IF f \in DOMAIN updated_data THEN Cell(updated_data[f])
                    ELSE files[m][id].rows[1][f]] >>]

\* the rows of the master file that delete_module_csv writes back
WithoutId(rows, id) == SelectSeq(rows, LAMBDA r : r # id)

\* the values of the tests: a str for a plain field, a dict (a list for a
\* house) for a JSON field
JsonValue(m, x) == IF JsonType(m) = "list" THEN PyList(<<x>>) ELSE PyDict("k", x)

RowOf(m, plain, json) ==
    [f \in Headers(m) \ {IdField(m)} |-> IF IsJson(m, f) THEN json ELSE plain]

\* what create_<module> may be called with: strs and JSON values, or None
\* for the plain fields
Rows(m) ==
    { RowOf(m, PyStr(<<"Bob">>), JsonValue(m, "a")),
      RowOf(m, PyNone, JsonValue(m, "b")) }

\* the first field of a module that is plain, and the first that is JSON
PlainField(m) == IF m = "Device" THEN "Device_Name" ELSE MODULE_HEADERS[m][2]
JsonField(m) == JsonFields(m)[1]

\* what update_<module> may be called with: a plain field, a JSON field,
\* both, or a key that is no field of the module
Changes(m) ==
    { [k \in {PlainField(m)} |-> PyStr(<<"111">>)],
      [k \in {JsonField(m)} |-> JsonValue(m, "c")],
      [k \in {PlainField(m), JsonField(m)} |->
            IF k = PlainField(m) THEN PyStr(<<>>) ELSE JsonValue(m, "a")],
      [k \in {"Nope"} |-> PyStr(<<"x">>)] }

\* create_<module>: generate_unique_ID draws an id that is not in the master
\* file and appends it, then the file is written and the id returned
Create(m, row) ==
    /\ db_ops < MaxStoreOps
    /\ \E id \in IdSpace \ MasterIds(db_master, m) :
        /\ db_master' = [db_master EXCEPT ![m] = Append(@, id)]
        /\ db_files' = write_module_csv(db_files, m, id, Created(m, id, row))
        /\ db_ret' = [ok |-> TRUE, id |-> id]
    /\ db_ops' = db_ops + 1
    /\ UNCHANGED << vars, cvars, pvars >>

\* update_<module>
Update(m, id, changes) ==
    /\ db_ops < MaxStoreOps
    /\ db_files' = update_module_csv(db_files, m, id, EncodedChanges(m, changes))
    /\ db_ops' = db_ops + 1
    /\ UNCHANGED << db_master, db_ret >>
    /\ UNCHANGED << vars, cvars, pvars >>

\* delete_<module>: delete_module_csv removes the file if it is there and
\* rewrites the master file without the id
Delete(m, id) ==
    /\ db_ops < MaxStoreOps
    /\ db_files' = [db_files EXCEPT ![m][id] = NoFile]
    /\ db_master' = [db_master EXCEPT ![m] = WithoutId(@, id)]
    /\ db_ops' = db_ops + 1
    /\ UNCHANGED db_ret
    /\ UNCHANGED << vars, cvars, pvars >>

NextStore ==
    \E m \in Modules :
        \/ \E row \in Rows(m) : Create(m, row)
        \/ \E id \in IdSpace, changes \in Changes(m) : Update(m, id, changes)
        \/ \E id \in IdSpace : Delete(m, id)

SpecStore == Init /\ [][NextStore]_dvars

\* ------------------------------------------------------------------ properties
Last(s) == s[Len(s)]

\* the lines of the protocol as the clients see them
RejectLine(name) ==
    <<"Username '">> \o name
        \o <<"' already taken. Please reconnect with a different name.\n">>
AckLine == <<"You are now connected. Type 'quit' to exit.\n">>
JoinLine(name) == <<"[Server] '">> \o name \o <<"' has joined the chat!", NL>>
ChatLine(name, text) == <<"[">> \o name \o <<"]: ">> \o text \o <<NL>>
LeaveLine(name) == <<"[Server] '">> \o name \o <<"' has left the chat.", NL>>

Registered(reg) == { reg[i].writer : i \in 1..Len(reg) }

\* the writers registered under a name
HoldersOf(reg, name) ==
    { reg[i].writer : i \in { j \in 1..Len(reg) : reg[j].username = name } }

\* a CancelledError is delivered to c in this step
CancelledNow(c) == reraise'[c] # reraise[c]

\* C1: in every reachable state no two entries of connected_clients carry
\* the same username; the names stored are whitespace-trimmed and compared
\* exactly (case-sensitive)
C1_UniqueUsernames ==
    /\ \A i, j \in 1..Len(connected_clients) :
            connected_clients[i].username = connected_clients[j].username => i = j
    /\ \A i \in 1..Len(connected_clients) :
            LET name == connected_clients[i].username
            IN  name # <<>> /\ Head(name) \notin Whitespace /\ Last(name) \notin Whitespace

\* "a" and "A" are both registered and a third connection that sent one of
\* them again has been refused
C1_Witness ==
    /\ HoldersOf(connected_clients, <<"a">>) # {}
    /\ HoldersOf(connected_clients, <<"A">>) # {}
    /\ \E c \in Conns : pc[c] = "reject_drain"

\* while d has been refused, the name it sent has exactly one holder, which
\* is not d, and d holds the lock it was checked under
C2_RefusedBesideHolder ==
    \A d \in Conns :
        pc[d] = "reject_drain" =>
            /\ lockOwner = d
            /\ hist[d].inserted = 0
            /\ \E c \in Conns \ {d} : HoldersOf(connected_clients, username[d]) = {c}

\* while d waits for its check and c, which sent the same name, is still in
\* its handshake after its insertion, c is the one holder of the name
C2_FirstHoldsDuringRace ==
    \A c, d \in Conns :
        (c # d /\ pc[d] = "reg_lock" /\ phase[c] = "join"
              /\ username[c] = username[d] /\ ~closing[c]) =>
            /\ HoldersOf(connected_clients, username[d]) = {c}
            /\ hist[d].inserted = 0

\* the step that inserts c finds its name free and leaves c its one holder;
\* every other connection waiting for its check with the same name keeps
\* waiting and is not inserted
C2_InsertStep(c) ==
    hist'[c].inserted # hist[c].inserted =>
        /\ hist[c].inserted = 0 /\ hist'[c].inserted = 1
        /\ HoldersOf(connected_clients, username'[c]) = {}
        /\ HoldersOf(connected_clients', username'[c]) = {c}
        /\ \A d \in Conns \ {c} :
                (pc[d] = "reg_lock" /\ username[d] = username'[c]) =>
                    pc'[d] = "reg_lock" /\ hist'[d].inserted = 0

\* the step that checks d while another connection holds its name refuses
\* d and leaves the registry as it was
C2_RefuseStep(d) ==
    (pc[d] # "reject_drain" /\ pc'[d] = "reject_drain") =>
        /\ connected_clients' = connected_clients
        /\ hist'[d].inserted = 0
        /\ \E c \in Conns \ {d} : HoldersOf(connected_clients, username'[d]) = {c}

\* C2: of two connections that send the same name concurrently exactly one
\* is inserted and the other is refused: the check-and-insert that runs first
\* inserts, the one that runs second finds the name and refuses, and the
\* registry keeps one entry for the name, the first connection's
C2_SameNameRace ==
    /\ [](C2_RefusedBesideHolder /\ C2_FirstHoldsDuringRace)
    /\ [][\A c \in Conns : C2_InsertStep(c) /\ C2_RefuseStep(c)]_vars

\* d waits for the lock to be checked while c, which sent the same name, is
\* registered and holds the lock for its join notice
C2_Witness ==
    \E c, d \in Conns :
        /\ c # d
        /\ pc[d] = "reg_lock"
        /\ username[d] = username[c]
        /\ phase[c] = "join" /\ pc[c] = "bcast_drain"
        /\ HoldersOf(connected_clients, username[d]) = {c}

\* the last thing written to c is the refusal of the name it sent
Refused(c) == wire[c] # <<>> /\ Last(wire[c]) = RejectLine(username[c])

\* a refused connection has been sent the prompt (and, when its name was
\* made up by the server, the notice of that name) and then the exact
\* refusal, is not in the registry, was never inserted and announces nothing
C3_RefusedState ==
    \A c \in Conns :
        /\ pc[c] = "reject_drain" =>
                /\ \/ wire[c] = <<WelcomeMsg, RejectLine(username[c])>>
                   \/ wire[c] =
                        << WelcomeMsg,
                           <<"No username provided, assigned: ">>
                                \o username[c] \o <<NL>>,
                           RejectLine(username[c]) >>
                /\ HoldersOf(connected_clients, username[c]) # {}
        /\ Refused(c) =>
                /\ pc[c] \in {"reject_drain", "cleanup_lock"}
                /\ c \notin Registered(connected_clients)
                /\ hist[c].inserted = 0
                /\ phase[c] = "none"

\* every step a refused connection's handler takes leaves the registry and
\* what the other connections were sent as they were, and unless it is
\* cancelled in that step the handler ends with the transport closed
C3_RefusedStep(c) ==
    (Refused(c) /\ pc'[c] # pc[c]) =>
        /\ connected_clients' = connected_clients
        /\ \A w \in Conns \ {c} : wire'[w] = wire[w]
        /\ hist'[c].inserted = 0
        /\ pc'[c] \in {"cleanup_lock", "done"}
        /\ (pc'[c] = "done" /\ ~CancelledNow(c)) => closing'[c]

\* C3: a connection whose name is already registered is sent exactly
\* "Username '<name>' already taken. Please reconnect with a different
\* name.\n", has its transport closed, is never inserted, causes no join
\* notice, and leaves the existing entry with that name as it was
C3_DuplicateRefused ==
    /\ []C3_RefusedState
    /\ [][\A c \in Conns : C3_RefusedStep(c)]_vars

\* the refused handler has finished and closed its transport while the
\* holder of the name is still registered
C3_Witness ==
    \E c, h \in Conns :
        /\ c # h
        /\ pc[c] = "done" /\ closing[c] /\ hist[c].inserted = 0 /\ ~reraise[c]
        /\ h \in Registered(connected_clients)
        /\ \E d \in Conns \ {c, h} : Refused(d)

\* c has been sent the ready acknowledgment, is in the chat loop and has not
\* been dropped by a broadcast
Handshaken(c) ==
    /\ \E i \in 1..Len(wire[c]) : wire[c][i] = AckLine
    /\ pc[c] \in {"read_line", "bcast_lock", "bcast_drain"}
    /\ phase[c] \in {"none", "chat"}
    /\ ~closing[c]

\* every connection that completed the handshake is registered; when all
\* have, the registry holds one entry for each
C4_AllRegistered ==
    /\ \A c \in Conns : Handshaken(c) => c \in Registered(connected_clients)
    /\ (\A c \in Conns : Handshaken(c)) =>
            /\ Len(connected_clients) = NConn
            /\ Registered(connected_clients) = Conns

\* a step of c's relay of a chat line: nothing is written to c; while the
\* relay goes on the line is appended to one other connection and to nothing
\* else; when it returns every other registered connection whose handler is
\* running has the line as the last thing written to it
C4_RelayStep(c) ==
    ((phase'[c] = "chat" /\ lockOwner' = c)
        \/ (phase[c] = "chat" /\ pc[c] = "bcast_drain" /\ pc'[c] = "read_line")) =>
        LET line == IF phase'[c] = "chat" THEN bmsg'[c] \o <<NL>> ELSE bmsg[c] \o <<NL>>
        IN  /\ wire'[c] = wire[c]
            /\ (pc'[c] = "bcast_drain" /\ (pc[c] = "bcast_drain" => bpos' # bpos)) =>
                    \E t \in Conns \ {c} :
                        /\ wire'[t] = Append(wire[t], line)
                        /\ \A w \in Conns \ {t} : wire'[w] = wire[w]
            /\ (phase[c] = "chat" /\ pc[c] = "bcast_drain" /\ pc'[c] = "read_line") =>
                    /\ \A w \in Registered(connected_clients') \ {c} :
                            pc'[w] # "done" =>
                                wire'[w] # <<>> /\ Last(wire'[w]) = line
                    /\ (\A w \in Conns \ {c} : Handshaken(w)') =>
                            { w \in Conns : wire'[w] # <<>> /\ Last(wire'[w]) = line }
                                = Conns \ {c}

\* C4: after N connections with distinct names have completed the handshake
\* the registry holds exactly N entries, and a chat line one of them sends is
\* written to exactly the other N-1 and never to the sender
C4_FanOut ==
    /\ []C4_AllRegistered
    /\ [][\A c \in Conns : C4_RelayStep(c)]_vars

\* all connections completed the handshake and the line "hi" of one of them
\* is the last thing written to each of the others
C4_Witness ==
    /\ \A c \in Conns : Handshaken(c)
    /\ \E c \in Conns :
        /\ pc[c] = "read_line"
        /\ \A w \in Conns \ {c} :
                Last(wire[w]) = ChatLine(username[c], <<"h", "i">>)
        /\ \A i \in 1..Len(wire[c]) : wire[c][i] # ChatLine(username[c], <<"h", "i">>)

\* the writers of the snapshot after the current position that the broadcast
\* of c does not skip
Remaining(c) ==
    { i \in (bpos + 1)..Len(all_writers) :
        all_writers[i] # (IF phase[c] = "leave" THEN 0 ELSE c) }

\* a drain in c's broadcast raises an OSError: the target is closed and out
\* of the registry, and nothing is raised into c's handler
C5_TargetDropped(c) ==
    BroadcastDrainedWith(c, "oserror") =>
        /\ all_writers[bpos] \notin Registered(connected_clients')
        /\ closing'[all_writers[bpos]]
        /\ hist'[c].cleanups = hist[c].cleanups
        /\ ~CancelledNow(c)

\* a drain in c's broadcast returns or raises: the broadcast goes on to the
\* next writer of the snapshot it does not skip and writes the line to it, or
\* there is none left and it returns to its caller
C5_LoopGoesOn(c) ==
    (\E o \in {"ok", "oserror", "other"} : BroadcastDrainedWith(c, o)) =>
        IF Remaining(c) = {}
        THEN pc'[c] = (IF phase[c] = "leave" THEN "done" ELSE "read_line")
        ELSE LET i == CHOOSE j \in Remaining(c) : \A k \in Remaining(c) : j <= k
             IN  /\ pc'[c] = "bcast_drain"
                 /\ bpos' = i
                 /\ all_writers' = all_writers
                 /\ wire'[all_writers[i]] = Append(wire[all_writers[i]], bmsg[c] \o <<NL>>)

\* while a broadcast holds the lock nothing is inserted in the registry
C5_NothingInserted(c) ==
    (pc[c] = "bcast_drain" /\ pc'[c] = "bcast_drain") =>
        Registered(connected_clients') \subseteq Registered(connected_clients)

\* C5: if the write or drain to one target raises a connection-reset,
\* broken-pipe or OS error in the middle of a broadcast, the call does not
\* raise to its caller, every other target of the snapshot still receives the
\* line, and the failing target is absent from the registry when it returns
C5_FailedTargetIsolated ==
    [][\A c \in Conns :
            C5_TargetDropped(c) /\ C5_LoopGoesOn(c) /\ C5_NothingInserted(c)]_vars

\* a broadcast has dropped its first target after an OSError and has gone on
\* to write to the next
C5_Witness ==
    \E c \in Conns :
        /\ pc[c] = "bcast_drain"
        /\ bpos >= 2
        /\ \E i \in 1..(bpos - 1) :
            /\ all_writers[i] # c
            /\ closing[all_writers[i]]
            /\ hist[all_writers[i]].forced = 1
            /\ all_writers[i] \notin Registered(connected_clients)
        /\ Last(wire[all_writers[bpos]]) = bmsg[c] \o <<NL>>

\* the step that inserts c while a peer is registered issues the join notice
\* with c's name, and not to c
C6_JoinStep(c) ==
    (hist'[c].inserted # hist[c].inserted
        /\ Registered(connected_clients') # {c} /\ ~CancelledNow(c)) =>
        /\ phase'[c] = "join"
        /\ bmsg'[c] \o <<NL>> = JoinLine(username'[c])
        /\ wire'[c] = wire[c]

\* the step in which c's handler reads a line that is neither blank nor quit
\* issues it as "[<name>]: <line>", and not to c; the next line is read only
\* when that broadcast has returned
C6_ChatStep(c) ==
    (pc[c] = "read_line" /\ phase'[c] = "chat") =>
        /\ \E text \in { Strip(data) : data \in ChatLines } :
                bmsg'[c] \o <<NL>> = ChatLine(username[c], text)
        /\ wire'[c] = wire[c]

\* the step in which c's cleanup removes it from the registry while a peer is
\* registered issues the departure notice with the name c was registered
\* under (the handler has not been cancelled)
C6_LeaveStep(c) ==
    (hist'[c].removed # hist[c].removed /\ connected_clients' # <<>>
        /\ ~reraise'[c]) =>
        /\ phase'[c] = "leave"
        /\ bmsg'[c] \o <<NL>> = LeaveLine(NameOf(connected_clients, c))

\* once the handler has left the chat loop it reads no more
C6_NoReadAfterQuit(c) ==
    hist[c].cleanups > 0 => pc'[c] \notin {"read_name", "read_line"}

\* C6: for a connection that sends a name, chat lines and quit, the peers
\* registered throughout see the join notice, each chat line as
\* "[<name>]: <line>" in the order sent, then the departure notice; the join
\* and chat lines are never written to the sender; nothing is read from the
\* connection after the quit line
C6_JoinChatLeave ==
    [][\A c \in Conns :
            /\ C6_JoinStep(c)
            /\ C6_ChatStep(c)
            /\ C6_LeaveStep(c)
            /\ C6_NoReadAfterQuit(c)]_vars

\* C7: on every exit path the cleanup path runs exactly once, and when the
\* handler has finished its connection is not in the registry and its
\* transport has been closed
C7_CleanupComplete ==
    \A c \in Conns :
        /\ hist[c].cleanups <= 1
        /\ pc[c] = "done" =>
                /\ hist[c].cleanups = 1
                /\ c \notin Registered(connected_clients)
                /\ closing[c]

\* C8: each connection is inserted in the registry at most once and removed
\* from it at most once, the removal by its handler's cleanup and the forced
\* removal by a broadcast counted together; once removed it is not inserted
\* again
C8_OnceInOnceOut ==
    \A c \in Conns :
        /\ hist[c].inserted <= 1
        /\ hist[c].removed + hist[c].forced <= hist[c].inserted
        /\ c \in Registered(connected_clients)
                <=> (hist[c].inserted = 1 /\ hist[c].removed + hist[c].forced = 0)
        /\ Cardinality({ i \in 1..Len(connected_clients) :
                            connected_clients[i].writer = c }) <= 1

\* a broadcast has dropped one connection and the cleanup of that
\* connection's handler has then run to its end, and another connection has
\* been removed by its own cleanup
C8_Witness ==
    \E c, d \in Conns :
        /\ hist[c].forced = 1 /\ hist[c].removed = 0
        /\ pc[c] = "done" /\ hist[c].cleanups = 1
        /\ hist[d].removed = 1 /\ hist[d].forced = 0

\* C9: a connection that never completed registration is never in the
\* registry and causes no join and no departure notice; a departure notice
\* is broadcast only for a connection that had been registered under a name
C9_NoNoticeUnregistered ==
    \A c \in Conns :
        /\ hist[c].inserted = 0 =>
                /\ c \notin Registered(connected_clients)
                /\ phase[c] = "none"
                /\ lockOwner = c => pc[c] = "reject_drain"
        /\ phase[c] = "leave" => hist[c].inserted = 1 /\ hist[c].removed = 1
        /\ phase[c] = "join" => hist[c].inserted = 1

\* a handler whose connection sent a name and was never registered has
\* finished while a registered peer was there to be written to, and the
\* peer has been sent nothing but the prompt and the acknowledgment
C9_Witness ==
    \E c, d \in Conns :
        /\ c # d
        /\ pc[c] = "done" /\ hist[c].inserted = 0 /\ hist[c].cleanups = 1
        /\ pc[d] = "read_line" /\ d \in Registered(connected_clients)
        /\ wire[d] = <<WelcomeMsg, AckLine>>
        /\ \E e \in Conns \ {c, d} : pc[e] = "done" /\ hist[e].inserted = 0 /\ closing[e]

\* the lines of ChatLines by what they are after trimming
QuitLines == { <<"Q", "u", "i", "t", " ", NL>> }
BlankLines == { <<" ", NL>> }

\* the handler of c, registered and in the chat loop, reads data
C10_LineStep(c, data) ==
    ReadLineData(c, data) =>
        IF data = EOF \/ data \in QuitLines
        THEN /\ hist'[c].cleanups = hist[c].cleanups + 1
             /\ phase'[c] # "chat"
             /\ pc'[c] \notin {"read_line", "read_name"}
             /\ \A w \in Conns \ {c} :
                    wire'[w] = wire[w]
                        \/ wire'[w] = Append(wire[w], LeaveLine(username[c]))
        ELSE IF data \in BlankLines
        THEN /\ pc' = pc /\ phase' = phase /\ wire' = wire
             /\ connected_clients' = connected_clients
             /\ hist' = hist /\ lockOwner' = lockOwner /\ lockWaiters' = lockWaiters
        ELSE LET line == ChatLine(username[c], <<"h", "i">>)
                 others == Registered(connected_clients) \ {c}
             IN  /\ data = <<"h", "i", NL>>
                 /\ hist'[c].cleanups = hist[c].cleanups
                 /\ wire'[c] = wire[c]
                 /\ connected_clients' = connected_clients
                 /\ IF lockOwner # 0 \/ lockWaiters # <<>>
                    THEN /\ pc'[c] = "bcast_lock" /\ phase'[c] = "chat"
                         /\ bmsg'[c] \o <<NL>> = line
                         /\ wire' = wire
                    ELSE IF others = {}
                    THEN pc'[c] = "read_line" /\ wire' = wire
                    ELSE /\ pc'[c] = "bcast_drain" /\ phase'[c] = "chat"
                         /\ bmsg'[c] \o <<NL>> = line
                         /\ Registered(connected_clients) \ {c}
                                = { all_writers'[i] : i \in 1..Len(all_writers') } \ {c}
                         /\ \E t \in others :
                                /\ wire'[t] = Append(wire[t], line)
                                /\ \A w \in Conns \ {t} : wire'[w] = wire[w]

\* C10: for each line a registered connection's handler reads in the chat
\* loop: end of stream or 'quit' (any case, trimmed) ends the loop and starts
\* the cleanup without being relayed; a blank line is ignored; any other line
\* is broadcast once as "[<name>]: <line>" to the registered connections
\* other than the sender, and the handler stays in the loop
C10_PerLine ==
    [][\A c \in Conns : \A data \in ChatLines \cup {EOF} : C10_LineStep(c, data)]_vars

\* the line "hi" of one connection has been written to a peer and the sender
\* is back in the chat loop, still registered
C10_Witness ==
    \E c, w \in Conns :
        /\ c # w
        /\ pc[c] = "read_line" /\ c \in Registered(connected_clients)
        /\ events = 1
        /\ wire[w] # <<>> /\ Last(wire[w]) = ChatLine(username[c], <<"h", "i">>)

\* C11: a handler that wants to register or unregister is never blocked by
\* another handler's broadcast while that broadcast is suspended in write and
\* drain toward a target: the lock is not held across the per-target writes
C11_NotBlockedByDrain ==
    \A c, d \in Conns :
        ~ /\ pc[d] = "bcast_drain" /\ lockOwner = d
          /\ pc[c] \in {"reg_lock", "cleanup_lock"}
          /\ \E i \in 1..Len(lockWaiters) : lockWaiters[i] = c

\* the writers of a snapshot
Targets(snapshot) == { snapshot[i] : i \in 1..Len(snapshot) }

\* close() has been called only on connections that are out of the registry
C12_ClosedAfterRemoved ==
    \A c \in Conns : closing[c] => c \notin Registered(connected_clients)

\* while a broadcast is suspended in a drain, the writer it has just written
\* to and the writers it has still to write to are in the registry, were
\* never removed from it and have not been closed
C12_TargetsRegistered ==
    \A c \in Conns :
        pc[c] = "bcast_drain" =>
            /\ lockOwner = c
            /\ bpos \in 1..Len(all_writers)
            /\ \A i \in bpos..Len(all_writers) :
                    /\ all_writers[i] \in Registered(connected_clients)
                    /\ hist[all_writers[i]].removed = 0
                    /\ hist[all_writers[i]].forced = 0
                    /\ ~closing[all_writers[i]]

\* the step in which a broadcast takes its snapshot: the snapshot holds every
\* connection registered before the step, but for the caller when its
\* cleanup has just removed it, and is the registry as it is then
C12_SnapshotStep ==
    (all_writers = <<>> /\ all_writers' # <<>>) =>
        /\ \A w \in Registered(connected_clients) :
                w \in Targets(all_writers') \/ (w = lockOwner' /\ phase'[w] = "leave")
        /\ Targets(all_writers') = Registered(connected_clients')

\* C12: no broadcast writes to a connection already removed from the
\* registry by its handler or by a previous broadcast; a registration that
\* completed before a broadcast took its snapshot is among its targets; a
\* transport is closed only after, or in the same step as, the removal
C12_NoHalfRemoved ==
    /\ [](C12_ClosedAfterRemoved /\ C12_TargetsRegistered)
    /\ [][C12_SnapshotStep]_vars

\* a broadcast is writing to its targets after one connection has been
\* removed and closed by its handler and is not among them
C12_Witness ==
    \E c, r \in Conns :
        /\ pc[c] = "bcast_drain"
        /\ hist[r].removed = 1 /\ closing[r]
        /\ r \notin Targets(all_writers)
        /\ Cardinality(Targets(all_writers)) >= 2

\* the step in which c is cancelled while suspended in a read enters the
\* cleanup path with the cancellation pending
C13_CancelStep(c) ==
    (pc[c] \in {"read_name", "read_line"} /\ CancelledNow(c)) =>
        /\ hist'[c].cleanups = hist[c].cleanups + 1
        /\ reraise'[c]
        /\ pc'[c] \in {"cleanup_lock", "bcast_lock", "bcast_drain", "done"}
        /\ pc'[c] # "cleanup_lock" => c \notin Registered(connected_clients')

\* the step in which c is cancelled in a read and its cleanup, finding the
\* lock free, removes it from the registry while a peer is registered issues
\* the departure notice
C13_NoticeStep(c) ==
    (pc[c] \in {"read_name", "read_line"} /\ CancelledNow(c)
        /\ hist'[c].removed # hist[c].removed /\ connected_clients' # <<>>) =>
        /\ phase'[c] = "leave"
        /\ bmsg'[c] \o <<NL>> = LeaveLine(NameOf(connected_clients, c))

\* the step in which a cancelled handler ends, otherwise than by a further
\* cancellation, leaves it out of the registry with its transport closed
C13_EndStep(c) ==
    (reraise[c] /\ pc[c] # "done" /\ pc'[c] = "done") =>
        /\ c \notin Registered(connected_clients')
        /\ closing'[c]
        /\ reraise'[c]

\* C13: a handler cancelled while suspended in a read (for the name or for a
\* chat line) still runs the cleanup path: it is unregistered, the departure
\* notice is broadcast if it was registered, the transport is closed, and the
\* cancellation is re-raised after the cleanup
C13_CancelledInRead ==
    [][\A c \in Conns :
            C13_CancelStep(c) /\ C13_NoticeStep(c) /\ C13_EndStep(c)]_vars

\* C14: when the server is shut down and the handlers in flight are
\* cancelled, every handler completes its cleanup: once they have all ended
\* the registry is empty and the transport of every accepted connection has
\* been closed
C14_ShutdownCompletes ==
    (~serving /\ \A c \in Conns : pc[c] \in {"idle", "done"}) =>
        /\ connected_clients = <<>>
        /\ \A c \in Conns : pc[c] = "done" => closing[c]

\* the name the server makes up for connection c: User_<peer port>
C15_Assigned(c) == <<"U", "s", "e", "r", "_">> \o PortText(c)
C15_NoticeLine(c) ==
    <<"No username provided, assigned: ">> \o C15_Assigned(c) \o <<NL>>

\* first lines that are empty or whitespace once the line end is gone
C15_BlankNames == { <<" ", NL>>, <<NL>> }

\* the step in which c's first line arrives blank gives c the made-up name
\* and tells c so; nothing is registered yet
C15_AssignStep(c) ==
    \A data \in C15_BlankNames :
        ReadNameData(c, data) =>
            /\ username'[c] = C15_Assigned(c)
            /\ wire'[c] = Append(wire[c], C15_NoticeLine(c))
            /\ pc'[c] = "default_drain"
            /\ connected_clients' = connected_clients

\* the step in which c, holding a made-up name, gets to the uniqueness check
\* (its notice drained with the lock free, or the lock handed to it): c is
\* refused when the name is in the registry and registered under it otherwise
C15_CheckStep(c) ==
    (/\ username[c] = C15_Assigned(c)
     /\ \/ pc[c] = "default_drain" /\ lockOwner = 0 /\ lockWaiters = <<>>
        \/ pc[c] = "reg_lock"
     /\ pc'[c] # pc[c] /\ ~CancelledNow(c) /\ events' = events) =>
        IF HoldersOf(connected_clients, C15_Assigned(c)) # {}
        THEN /\ pc'[c] = "reject_drain"
             /\ Last(wire'[c]) = RejectLine(C15_Assigned(c))
             /\ connected_clients' = connected_clients
        ELSE /\ connected_clients' =
                    Append(connected_clients,
                           [writer |-> c, username |-> C15_Assigned(c)])
             /\ hist'[c].inserted = hist[c].inserted + 1

\* the step in which c's notice drains while the lock is taken queues c for
\* the lock
C15_QueueStep(c) ==
    (/\ pc[c] = "default_drain" /\ ~(lockOwner = 0 /\ lockWaiters = <<>>)
     /\ pc'[c] # pc[c] /\ ~CancelledNow(c) /\ events' = events) =>
        /\ pc'[c] = "reg_lock"
        /\ connected_clients' = connected_clients

\* C15: a blank or whitespace-only username is replaced by User_<peer port>,
\* the client is sent "No username provided, assigned: <name>", and the
\* made-up name goes through the same uniqueness check and registration as a
\* typed name
C15_DefaultName ==
    [][\A c \in Conns :
            C15_AssignStep(c) /\ C15_CheckStep(c) /\ C15_QueueStep(c)]_vars

\* one connection is registered under its made-up name while another, whose
\* made-up name somebody typed first, is being refused
C15_Witness ==
    \E c, d \in Conns :
        /\ HoldersOf(connected_clients, C15_Assigned(c)) = {c}
        /\ \E i \in 1..Len(wire[c]) : wire[c][i] = C15_NoticeLine(c)
        /\ pc[d] = "reject_drain"
        /\ username[d] = C15_Assigned(d)
        /\ \E i \in 1..Len(wire[d]) : wire[d][i] = C15_NoticeLine(d)

\* ---- client session
\* the client is Disconnected: neither flag is set
Disconnected == ~is_connected /\ ~is_connecting

\* the fields of a click pass the checks of connect_disconnect
GoodFields(f) ==
    /\ Strip(f.name) # <<>>
    /\ Strip(f.host) # <<>>
    /\ PortOk(Strip(f.port))

\* a Connect request with valid fields, made while Disconnected with the gate
\* free, starts a background thread and leaves the client Connecting
C16_ConnectStep ==
    \A f \in ClickInputs :
        ( /\ Disconnected /\ ~connect_lock
          /\ GoodFields(f)
          /\ Click(f.name, f.host, f.port) )
        => /\ is_connecting' /\ ~is_connected'
           /\ \E t \in Threads : thread[t] = "unborn" /\ thread'[t] = "start"

\* the iteration of the loop in which the connection task learns that the
\* transport opened, and nothing else, leaves the client Connected
C16_OpenStep ==
    \A t \in Threads :
        ( /\ ctask[t] = "open" /\ ~cmust[t]
          /\ ready[t] = << Entry("conn_wake", "ok", 0, <<>>) >>
          /\ RunCallback(t) )
        => /\ is_connected' /\ ~is_connecting'
           /\ writer' = t /\ transport'[t] = "open"

\* the iteration of the loop that runs one send of m on an open transport
\* puts m and one newline on the wire, and nothing else
C16_SendStep ==
    \A t \in Threads, w \in Threads, text \in SendTexts :
        ( /\ writer = w /\ transport[w] = "open"
          /\ ready[t] = << Entry("send", "", 0, Strip(text)) >>
          /\ RunCallback(t) )
        => sent' = [sent EXCEPT ![w] = Append(@, Strip(text) \o <<NL>>)]

\* when the background thread of a session that was Connected has finished
\* and its loop is closed, the client is Disconnected and the transport of
\* the session is closed
C16_ClosedAtEnd ==
    \A t \in Threads :
        Closed(CCur, t) /\ transport[t] # "none" /\ Disconnected
        => transport[t] = "closed"

\* C16: from Disconnected, a Connect request with valid name, host and port
\* makes the client Connecting and, once the transport opens, Connected; a
\* Send of m while Connected puts exactly m and one newline on the wire; a
\* Disconnect while Connected ends Disconnected with the transport closed
C16_ClientSequence ==
    /\ [][C16_ConnectStep /\ C16_OpenStep /\ C16_SendStep]_cvars
    /\ []C16_ClosedAtEnd

\* the three steps of C16 that do not depend on how a session ends
C16_Steps == [][C16_ConnectStep /\ C16_OpenStep /\ C16_SendStep]_cvars

\* the steps of C16 are taken: a message is on the wire of a Connected client
C16_StepsTaken ==
    \E t \in Threads :
        is_connected /\ writer = t /\ transport[t] = "open" /\ sent[t] # <<>>

\* the connection attempt of thread t has not resolved: the thread is
\* started and its connection task has neither opened a transport nor ended
Unresolved(t) ==
    \/ thread[t] = "start"
    \/ thread[t] = "running" /\ ctask[t] \in {"new", "open"}

\* C17: a Connect request made while an earlier one has not resolved starts
\* no background thread, opens no transport and changes no state
C17_SecondConnect ==
    [][ \A f \in ClickInputs :
            ( /\ \E t \in Threads : Unresolved(t)
              /\ ~is_connected
              /\ GoodFields(f)
              /\ Click(f.name, f.host, f.port) )
            => UNCHANGED cstate ]_cvars

\* C17 for a client that was never Connected before: the second Connect
\* request finds the gate held and changes nothing
C17_FirstSession ==
    [][ \A f \in ClickInputs :
            ( /\ \E t \in Threads : Unresolved(t)
              /\ \A t \in Threads : transport[t] = "none" /\ ~Over(CCur, t)
              /\ Click(f.name, f.host, f.port) )
            => UNCHANGED cstate ]_cvars

\* no background thread is at work: each is either never started or over
NoThreadLeft == \A t \in Threads : thread[t] = "unborn" \/ Over(CCur, t)

\* C18: whenever the background connection loop has exited, for whatever
\* reason, the client is Disconnected: neither flag is still set
C18_ResetAtExit == NoThreadLeft => Disconnected

\* C18 for an attempt that never opened a transport: after the loop exited
\* the client is Disconnected
C18_ResetAfterFailure ==
    NoThreadLeft /\ (\A t \in Threads : transport[t] = "none") => Disconnected

\* a connection attempt failed and its thread is over
C18_FailureSeen ==
    \E t \in Threads : Over(CCur, t) /\ transport[t] = "none" /\ NoThreadLeft

\* the loop of thread t has been stopped: run_until_complete(
\* client_connection_loop) is about to return or raise
LoopStopped(t) == thread[t] = "running" /\ stopping[t]

\* C19: the loop is never stopped while the cleanup of its connection task
\* is pending: when the loop stops the task is done, the receive task has
\* ended and the transport, if one was opened, is closed
C19_CleanupBeforeStop ==
    \A t \in Threads :
        LoopStopped(t)
        => /\ ctask[t] = "done"
           /\ rtask[t] \in {"none", "done"}
           /\ transport[t] \in {"none", "closed"}

\* C19 for the only session of a client, when its loop stops because the
\* connection task ended by itself (the connection failed, or the server
\* closed or reset the stream): the cleanup is complete
C19_CleanupWhenTaskEnds ==
    \A t \in Threads :
        /\ LoopStopped(t) /\ ctask[t] = "done"
        /\ \A u \in Threads \ {t} : thread[u] = "unborn"
        => /\ rtask[t] \in {"none", "done"}
           /\ transport[t] \in {"none", "closed"}

\* a disconnect of the session of thread t is in progress: the session was
\* Connected, the client has been told to disconnect, and the connection
\* task of the session has not ended
Disconnecting(t) ==
    /\ Running(CCur, t) /\ async_loop = t
    /\ ctask[t] \in {"recv", "c_recv", "c_close"}
    /\ Disconnected

\* C20: a disconnect request made while a disconnect is in progress, the
\* fields being as good as they were for the session, is a no-op: it
\* schedules no second stop, starts no connection attempt and changes no
\* state
C20_SecondDisconnect ==
    [][ \A f \in ClickInputs :
            ( /\ \E t \in Threads : Disconnecting(t)
              /\ GoodFields(f)
              /\ Click(f.name, f.host, f.port) )
            => UNCHANGED cstate ]_cvars

\* the part of C20 about the stop: a request made while a disconnect is in
\* progress hands no _schedule_stop to any loop
C20_NoSecondStop ==
    [][ \A f \in ClickInputs :
            ( /\ \E t \in Threads : Disconnecting(t)
              /\ Click(f.name, f.host, f.port) )
            => \A t \in Threads :
                   HasWake([CCur EXCEPT !.ready = ready'], t, "schedule_stop")
                   => HasWake(CCur, t, "schedule_stop") ]_cvars

\* ---- client: requests and failures
\* what the user should be told when the fields are turned down: one message
\* and one status for each kind of bad input, the name being looked at first,
\* then the host, then the port
C21_Told(f) ==
    IF Strip(f.name) = <<>>
    THEN << "Please enter a username first.", "Username required" >>
    ELSE IF Strip(f.host) = <<>>
    THEN << "Server Host cannot be empty.", "Host required" >>
    ELSE << "Invalid Port: '", "Invalid Port" >>

\* a port text that is a whole number from 1 to 65535 once the blanks around
\* it are gone
C21_PortTexts ==
    { <<"8">>, <<" ", "1">>, <<"6", "5", "5", "3", "5">> }

\* a Connect request whose fields are not all good
C21_BadRequest(f) ==
    /\ Disconnected /\ ~connect_lock
    /\ \/ Strip(f.name) = <<>>
       \/ Strip(f.host) = <<>>
       \/ f.port \notin C21_PortTexts
    /\ SessionClick(f.name, f.host, f.port)

\* C21: a Connect request with an empty name, an empty host or a port that
\* is not a whole number from 1 to 65535 is turned down with the message and
\* the status of its kind; the client stays Disconnected, no thread is
\* started and the gate is free when the request returns
C21_InvalidRejected ==
    [][ \A f \in FieldInputs :
            C21_BadRequest(f)
            => /\ Disconnected' /\ ~connect_lock'
               /\ thread' = thread /\ ready' = ready /\ async_loop' = async_loop
               /\ Len(said') = 2
               /\ said'[1][1] = "message" /\ Head(said'[1][2]) = C21_Told(f)[1]
               /\ said'[2][1] = "status" /\ said'[2][2] = << C21_Told(f)[2] >> ]_cvars

\* each kind of bad input has been turned down: the client is Disconnected
\* with no thread started, and was just told that the port is invalid
C21_Witness ==
    /\ Disconnected /\ ~connect_lock
    /\ \A t \in Threads : thread[t] = "unborn"
    /\ client_username = <<"a">>
    /\ Len(said) = 2 /\ said[2] = << "status", <<"Invalid Port">> >>

\* the status each way of failing to open the transport should give
C22_StatusOf(o) ==
    CASE o = "refused" -> <<"Connection refused. Server offline?">>
      [] o = "timeout" -> <<"Connection timed out.">>
      [] OTHER -> <<"Connection error: ", "e">>

\* the iteration of the loop in which the connection task of thread t
\* learns that the transport did not open, and nothing else: the status of
\* that kind of failure is set, the client is not Connected, no receive
\* task and no transport exist for the attempt, and the cleanup has run
C22_FailStep(t, o) ==
    ( /\ ctask[t] = "open" /\ ~cmust[t]
      /\ ready[t] = << Entry("conn_wake", o, 0, <<>>) >>
      /\ ~is_connected
      /\ RunCallback(t) )
    => /\ said' # <<>> /\ said'[1] = << "status", C22_StatusOf(o) >>
       /\ ~is_connected'
       /\ rtask'[t] = "none" /\ transport'[t] = "none" /\ sent'[t] = <<>>
       /\ ctask'[t] = "done"

\* the step in which the thread of a failed attempt ends, no other thread
\* being at work: the client is Disconnected and the gate is free
C22_FailEnd(t) ==
    ( /\ transport[t] = "none" /\ ctask[t] = "done"
      /\ \A u \in Threads \ {t} : thread[u] = "unborn" \/ Over(CCur, u)
      /\ LoopExit(t) \/ ThreadEnd(t)
      /\ Over(CCur, t)' )
    => Disconnected' /\ ~connect_lock'

\* C22: when opening the transport fails (refused, timed out, or any other
\* error) the client never becomes Connected and starts no receive task;
\* each of the three sets its own status, the cleanup runs, and the session
\* ends Disconnected with the gate free
C22_OpenFailure ==
    [][ \A t \in Threads :
            /\ \A o \in {"refused", "timeout", "error"} : C22_FailStep(t, o)
            /\ C22_FailEnd(t) ]_cvars

\* an attempt has failed and its thread has finished
C22_Witness ==
    \E t \in Threads :
        /\ thread[t] = "finished" /\ ctask[t] = "done" /\ transport[t] = "none"
        /\ NoThreadLeft /\ Disconnected /\ ~connect_lock

\* ---- client: sends
\* C23: every write to a transport is made by the loop of the session the
\* transport belongs to, in one of its iterations; what is written is added
\* after what was written before, one whole message and its newline at a
\* time.  The user interface only hands the send to the loop
C23_WritesInLoop ==
    [][ \A w \in Threads :
            sent'[w] # sent[w]
            => /\ RunCallback(w)
               /\ Len(sent'[w]) > Len(sent[w])
               /\ SubSeq(sent'[w], 1, Len(sent[w])) = sent[w]
               /\ \A i \in (Len(sent[w]) + 1)..Len(sent'[w]) :
                      /\ Last(sent'[w][i]) = NL
                      /\ \A j \in 1..(Len(sent'[w][i]) - 1) : sent'[w][i][j] # NL ]_cvars

\* a message of the user and the display name are both on the wire of a
\* Connected client
C23_Witness ==
    \E t \in Threads :
        /\ is_connected /\ writer = t
        /\ Len(sent[t]) = 2 /\ nsends = 1

\* the display name of a client whose fields were accepted: the name field
\* without the blanks around it
DisplayName == <<"a">>

\* C24: on every connection the first line the client writes is its display
\* name: no message of the user is on the wire before it
C24_NameFirst ==
    \A t \in Threads :
        sent[t] # <<>> => sent[t][1] = DisplayName \o <<NL>>

\* the part of C24 that is about the reply itself: what the client writes
\* when the first line it receives is the prompt is its display name and a
\* newline
C24_ReplyIsName ==
    [][ \A t \in Threads :
            ( /\ rtask[t] = "readline" /\ first_message[t] /\ ~rmust[t]
              /\ ready[t] = << Entry("recv_wake", "line", 0,
                                     <<"Welcome!", " ", "n", NL>>) >>
              /\ async_loop = t /\ writer = t /\ transport[t] = "open"
              /\ RunCallback(t) )
            => ready'[t] = << Entry("send_submit", "", 0, DisplayName) >> ]_cvars

\* ---- client: the gate
\* a thread was started that is not followed any further
NotFollowed == \E t \in Threads : t > MaxRunning /\ thread[t] = "start"

\* the step in which the connection of a thread opens leaves the gate free
C25_OpenStep ==
    \A t \in Threads :
        (transport[t] = "none" /\ transport'[t] = "open") => ~connect_lock'

\* a request to disconnect that is accepted leaves the gate free, with the
\* stop handed to the session's loop if that loop is running
C25_DisconnectStep ==
    \A f \in ClickInputs :
        (is_connected /\ ~connect_lock /\ Click(f.name, f.host, f.port)) =>
            /\ ~connect_lock'
            /\ ~is_connected'
            /\ Running(CCur, async_loop) =>
                    HasWake(CCur', async_loop, "schedule_stop")

\* C25: the gate is never held forever: whenever it is held it is free
\* again later (as far as the threads are followed); it is free after the
\* step in which a connection opens, and after an accepted request to
\* disconnect
C25_GateReleased ==
    /\ connect_lock ~> (~connect_lock \/ NotFollowed)
    /\ [][C25_OpenStep /\ C25_DisconnectStep]_cvars

\* the gate was taken for an attempt that failed, and the thread of the
\* attempt has ended and given it back
C25_Witness ==
    \E t \in Threads :
        /\ thread[t] = "finished" /\ transport[t] = "none"
        /\ ~connect_lock /\ ~is_connected /\ ~is_connecting
        /\ \A u \in Threads \ {t} : thread[u] = "unborn"

\* ---- client: one loop, one receive operation
\* the threads whose loop exists and is not closed yet
Loops == { t \in Threads : thread[t] \in {"running", "gens"} }

\* the receive operations that were started and have not returned, in a
\* loop that exists
Receiving == { t \in Loops : rtask[t] \in {"new", "readline"} }

\* C26: at any time the client has at most one background connection loop
\* and at most one running receive operation
C26_OneLoopOneReceive ==
    /\ Cardinality(Loops) <= 1
    /\ Cardinality(Receiving) <= 1

\* the part of C26 that is about one connection: its receive operation is
\* started in the step in which its transport opens and at no other, so
\* once, and there is none without a transport
C26_StartedOnce ==
    /\ [](\A t \in Threads : rtask[t] # "none" => transport[t] # "none")
    /\ [][\A t \in Threads :
            (rtask'[t] # rtask[t] /\ (rtask'[t] = "new" \/ rtask[t] = "none"))
                => /\ rtask[t] = "none" /\ rtask'[t] = "new"
                   /\ transport[t] = "none" /\ transport'[t] = "open"]_cvars

\* a receive operation was started and has returned
C26_Started == \E t \in Threads : rtask[t] = "done" /\ transport[t] = "closed"

\* ---- client: sends while not connected
\* C27: a send request made while the client is not Connected (Disconnected,
\* Connecting, or after a disconnect was requested) puts nothing on the
\* wire: it writes nothing and hands nothing to a loop to be written
C27_NothingSent ==
    [][\A text \in SendTexts :
            (~is_connected /\ SendEvent(text))
                => /\ sent' = sent
                   /\ ready' = ready
                   /\ nsends' = nsends
                   /\ said' = << <<"message", <<"Not connected to server.">> >> >>]_cvars

\* the user has just been refused a send after a disconnect was requested,
\* while the session's transport is still open and its loop has not yet run
\* the stop
C27_Refused ==
    /\ said = << <<"message", <<"Not connected to server.">> >> >>
    /\ ~is_connected
    /\ \E t \in Threads :
            /\ transport[t] = "open" /\ writer = t /\ async_loop = t
            /\ HasWake(CCur, t, "schedule_stop")

\* ---- client: the handshake in the receive operation
\* the step in which the receive operation of thread t, waiting in readline,
\* is handed the line data and nothing else runs in the loop
LineStep(t, data) ==
    /\ rtask[t] = "readline" /\ ~rmust[t]
    /\ ready[t] = << Entry("recv_wake", "line", 0, data) >>
    /\ RunCallback(t)

\* the user is told that the name was sent
NameSent == << "message", <<"Username sent to server.">> >>

\* the parts of C28 that are about the reply: when the very first line is
\* the prompt the client queues its name as the reply and shows the user a
\* note, not the line; a reply is made only while first_message is set and
\* clears it, and it stays cleared as long as the receive operation lives
C28_PromptReply ==
    [][\A t \in Threads :
        /\ \A data \in SessionLines :
            /\ (LineStep(t, data) /\ nlines = 1 /\ StartsWithWelcome(Strip(data)))
                    => /\ ready'[t] = << Entry("send_submit", "", 0, client_username) >>
                       /\ said' = << NameSent >>
            /\ (LineStep(t, data) /\ HasWake(CCur', t, "send_submit"))
                    => first_message[t] /\ ~first_message'[t]
        /\ (~first_message[t] /\ thread'[t] = "running") => ~first_message'[t]
      ]_cvars

\* C28: every line after the first that is not blank, a line that looks
\* like the prompt included, is shown to the user (as it is or translated)
\* and triggers no reply
C28_LaterLines ==
    [][\A t \in Threads : \A data \in SessionLines :
            (LineStep(t, data) /\ nlines > 1 /\ Strip(data) # <<>>)
                => /\ ~HasWake(CCur', t, "send_submit")
                   /\ said' # <<>>
                   /\ Last(said') \in { << "message", Strip(data) >>,
                                        << "message", Translated >> }
      ]_cvars

\* ---- client: a translation that fails
\* the line data, handled by the receive operation of thread t, is handed
\* to the language model
NeedsTranslation(t, data) ==
    /\ openai_client
    /\ Strip(data) # <<>>
    /\ ~(first_message[t] /\ StartsWithWelcome(Strip(data)))
    /\ ~StartsWith(Strip(data), <<"[Server]">>)
    /\ ~StartsWith(Strip(data), <<"[">> \o client_username \o <<"]">>)

\* the note the user is shown when the request fails in the way tr
C29_Note(tr) ==
    CASE tr = "auth" ->
            << "message", <<"--- Translation failed: Invalid OpenAI API Key. ---">> >>
      [] tr = "api" -> << "message", <<"--- Translation error: ", "e", " ---">> >>
      [] OTHER -> << "message", <<"--- Unexpected translation error: ", "e", " ---">> >>

\* C29: when the translation of a received line fails (authentication
\* error, API error, any other exception) the line is not dropped: the
\* user is shown the error note and then the line as it was received, and
\* the receive operation waits for the next line
C29_LineKept ==
    [][\A t \in Threads : \A data \in SessionLines :
        \A tr \in {"auth", "api", "error"} :
            ( /\ rtask[t] = "readline" /\ ~rmust[t]
              /\ ready[t] = << Entry("recv_wake", "line", 0, data) >>
              /\ Running(CCur, t) /\ ~stopping[t]
              /\ NeedsTranslation(t, data)
              /\ CBecomes(RunOnce(CCur, t, 1, 0, "ok", tr)) )
            => /\ said' = << C29_Note(tr), << "message", Strip(data) >> >>
               /\ ~first_message'[t]
               /\ writer = t => rtask'[t] = "readline" /\ ready'[t] = <<>>
      ]_cvars

\* the user has been shown the note about the key and then the line as
\* received, and the receive operation waits for the next line
C29_Witness ==
    \E t \in Threads :
        /\ said = << C29_Note("auth"), << "message", <<"x">> >> >>
        /\ openai_client
        /\ rtask[t] = "readline" /\ writer = t /\ transport[t] = "open"
        /\ ready[t] = <<>> /\ thread[t] = "running"

\* ---- p2p: the receiver
RECURSIVE NonBlank(_)
\* the lines that are not blank, stripped, in order
NonBlank(lines) ==
    IF lines = <<>> THEN <<>>
    ELSE IF Strip(Head(lines)) = <<>> THEN NonBlank(Tail(lines))
    ELSE << Strip(Head(lines)) >> \o NonBlank(Tail(lines))

RECURSIVE Reported(_)
\* the messages reported in what was printed, in order
Reported(out) ==
    IF out = <<>> THEN <<>>
    ELSE IF Head(out)[1] = "received"
    THEN << Head(out)[2] >> \o Reported(Tail(out))
    ELSE Reported(Tail(out))

\* the call has ended because the peer closed the stream
PeerClosed ==
    /\ p2p_pc = "done"
    /\ Len(p2p_out) >= 2
    /\ p2p_out[Len(p2p_out) - 1] = << "closed by peer", <<>> >>

\* while the handler reads: one read per line so far, and the non-blank
\* lines read so far have been reported once each, in order
C30_WhileReading ==
    p2p_pc = "readline" =>
        /\ p2p_calls <= Len(p2p_lines)
        /\ Reported(p2p_out) = NonBlank(SubSeq(p2p_lines, 1, p2p_calls))

\* after the end of the stream: one read per line and one more, every
\* non-blank line reported once and in order, then the close reported once,
\* the handler stopped and the writer closing
C30_AtEnd ==
    PeerClosed =>
        /\ p2p_calls = Len(p2p_lines) + 1
        /\ Reported(p2p_out) = NonBlank(p2p_lines)
        /\ Last(p2p_out) = << "stopping", <<>> >>
        /\ Cardinality({ i \in 1..Len(p2p_out) :
                            p2p_out[i][1] = "closed by peer" }) = 1
        /\ p2p_closing

\* the step in which the end of the stream is read calls close() on the
\* writer if it is not closing, and not otherwise
C30_CloseStep ==
    PeerReadEof => p2p_closes' = (IF p2p_closing THEN p2p_closes ELSE p2p_closes + 1)

\* C30: for any sequence of lines followed by the end of the stream,
\* handle_received_data reads once per line and once for the end of the
\* stream, reports each non-blank line once and in order and nothing for a
\* blank line, and at the end of the stream reports the close and stops,
\* closing the writer if it is not already closing
C30_Receiver ==
    /\ [](C30_WhileReading /\ C30_AtEnd)
    /\ [][C30_CloseStep]_pvars
    /\ [][p2p_pc = "done" => UNCHANGED pvars]_pvars

\* a call has ended at the end of the stream after a line, a blank line and
\* a line with blanks around it, and has closed the writer
C30_Witness ==
    /\ PeerClosed
    /\ p2p_lines = << <<"h", "i", NL>>, <<" ", NL>>, <<" ", "y", "o", " ", NL>> >>
    /\ p2p_calls = 4
    /\ Reported(p2p_out) = << <<"h", "i">>, <<"y", "o">> >>
    /\ p2p_closes = 1

\* ---- the CSV record store

\* the fields create_<module> was given are the fields a read returns
ReadsAs(m, id, row, files) ==
    /\ Read(files, m, id).ok
    /\ \A f \in DOMAIN row : Read(files, m, id).data[f] = row[f]

\* a row of strs and JSON values, as the tests create
Typed(row) == \A f \in DOMAIN row : row[f].t # "none"

\* create returns an id that is in the master list, and a read of that id
\* returns the created fields
C31_Create ==
    [][\A m \in Modules : \A row \in Rows(m) :
        Create(m, row) /\ Typed(row) =>
            /\ db_ret'.ok
            /\ db_ret'.id \in MasterIds(db_master', m)
            /\ ReadsAs(m, db_ret'.id, row, db_files')
            /\ Read(db_files', m, db_ret'.id).data[IdField(m)] = PyStr(<<db_ret'.id>>)]_dvars

\* after delete a read of the id returns nothing and the id is not in the
\* master list
C31_Delete ==
    [][\A m \in Modules : \A id \in IdSpace :
        Delete(m, id) =>
            /\ ~Read(db_files', m, id).ok
            /\ id \notin MasterIds(db_master', m)]_dvars

\* C31: after update(id, changes) of a record that reads, a read returns the
\* changed fields with every other field as it was read before
C31_Update ==
    [][\A m \in Modules : \A id \in IdSpace : \A changes \in Changes(m) :
        Update(m, id, changes) /\ Read(db_files, m, id).ok =>
            /\ Read(db_files', m, id).ok
            /\ \A f \in Headers(m) :
                    Read(db_files', m, id).data[f] =
                        IF f \in DOMAIN changes THEN changes[f]
                        ELSE Read(db_files, m, id).data[f]]_dvars

\* the same for changes that name fields of the module only
C31_UpdateOfFields ==
    [][\A m \in Modules : \A id \in IdSpace : \A changes \in Changes(m) :
        /\ Update(m, id, changes)
        /\ Read(db_files, m, id).ok
        /\ DOMAIN changes \subseteq Headers(m)
        => /\ Read(db_files', m, id).ok
           /\ \A f \in Headers(m) :
                    Read(db_files', m, id).data[f] =
                        IF f \in DOMAIN changes THEN changes[f]
                        ELSE Read(db_files, m, id).data[f]]_dvars

\* a record that was created and then updated with a key that is no field:
\* its id is in the master list and its file holds the header only
C31_Lost ==
    \E m \in Modules : \E id \in MasterIds(db_master, m) :
        /\ db_files[m][id].exists
        /\ db_files[m][id].rows = <<>>

\* ---- the departure notice

\* the places in what was written to w where a notice about name stands
NoticesOf(w, name) ==
    { i \in 1..Len(w) : w[i] \in {JoinLine(name), LeaveLine(name)} }

\* the last notice about name written to w is its departure notice
LastIsLeave(w, name) ==
    /\ NoticesOf(w, name) # {}
    /\ w[CHOOSE i \in NoticesOf(w, name) : \A j \in NoticesOf(w, name) : j <= i]
            = LeaveLine(name)

\* the handler of c returns or is left by a CancelledError
Terminates(c) == pc[c] # "done" /\ pc'[c] = "done"

\* C32: the handler of a connection that was registered terminates out of
\* its departure broadcast, or out of a cleanup that found its entry and
\* whose broadcast had nobody to write to, also when a broadcast had removed
\* the connection (the name "Someone" and a handler left by a
\* CancelledError are set aside here)
C32_DepartureAnnounced ==
    [][\A c \in Conns :
        /\ Terminates(c)
        /\ hist[c].inserted = 1
        /\ username[c] # Someone
        /\ ~reraise'[c]
        => phase[c] = "leave" \/ InRegistry(connected_clients, c)]_vars

\* when the handler of a registered connection that no broadcast removed
\* terminates, a peer that was sent its join notice and is registered before
\* and after the step has been sent its departure notice as the last notice
\* about the name
C32_DepartureUnlessForced ==
    [][\A c \in Conns : \A d \in Conns \ {c} :
        /\ Terminates(c)
        /\ hist[c].inserted = 1
        /\ hist[c].forced = 0
        /\ username[c] # Someone
        /\ ~reraise'[c]
        /\ \E i \in 1..Len(wire[d]) : wire[d][i] = JoinLine(username[c])
        /\ InRegistry(connected_clients, d)
        /\ InRegistry(connected_clients', d)
        => LastIsLeave(wire'[d], username[c])]_vars

\* a handler that a broadcast removed terminates and a registered peer that
\* was sent its join notice is sent nothing
C32_ForcedLeavesSilently ==
    [][\A c \in Conns : \A d \in Conns \ {c} :
        /\ Terminates(c)
        /\ hist[c].forced = 1
        /\ ~reraise'[c]
        => wire'[d] = wire[d] \/ pc'[d] = "done"]_vars

\* ---- client: the end of a thread and a later attempt

\* the attempt of thread u is under way: the thread was started, or its
\* connection task has not got past open_connection
Attempting(u) ==
    \/ thread[u] = "start"
    \/ thread[u] = "running" /\ ctask[u] \in {"new", "open"}

\* the finally clause of thread t's _run_async_client_manual_loop runs
ThreadCleanup(t) == LoopExit(t) \/ ThreadEnd(t)

\* the finally clause of thread t leaves the connecting flag and the gate of
\* a later attempt as they are
C33_FlagAndGateKept ==
    \A t \in Threads : \A u \in Threads :
        (t < u /\ Attempting(u) /\ ThreadCleanup(t)) =>
            /\ is_connecting' = is_connecting
            /\ connect_lock' = connect_lock

\* the finally clause of thread t leaves the loop reference of a later
\* attempt as it is
C33_LoopKept ==
    \A t \in Threads : \A u \in Threads :
        (t < u /\ Attempting(u) /\ async_loop = u /\ ThreadCleanup(t)) =>
            async_loop' = u

\* C33: the cleanup at the end of a background thread does not alter the
\* state of a later connection attempt: not its loop reference, not its
\* connecting flag, not the gate held for it
C33_LaterAttemptUntouched == [][C33_FlagAndGateKept /\ C33_LoopKept]_cvars

\* the loop reference alone
C33_LoopReferenceKept == [][C33_LoopKept]_cvars

\* a later attempt is under way with the connecting flag down and the gate
\* free, after the thread before it has finished
C33_AttemptStripped ==
    \E t \in Threads : \E u \in Threads :
        /\ t < u /\ Attempting(u)
        /\ thread[t] = "finished"
        /\ ~is_connecting /\ ~connect_lock /\ ~is_connected

\* ---- client: releases of the gate

\* C34: the gate is released only while it is held: a release that follows
\* a check on the user interface thread (in connect_disconnect's finally
\* clause, in on_closing) finds the gate still held, whatever the
\* background thread did in between
C34_ReleasedWhileHeld ==
    [][(FinallyRelease \/ OnClosingRelease) => connect_lock]_cvars

\* the user interface thread has seen the gate held and is about to release
\* it, and the gate is free
C34_StaleCheck == ui = "release" /\ ~connect_lock

\* ---- the ready acknowledgment

\* a line that a broadcast writes: a join notice, a departure notice or a
\* relayed chat line
Relayed(line) == line[1] \in {"[Server] '", "["}

\* C35: whatever broadcast line a connection has been written comes after
\* its ready acknowledgment (a connection whose handler a CancelledError has
\* reached is set aside)
C35_AckBeforeBroadcasts ==
    \A c \in Conns : \A i \in 1..Len(wire[c]) :
        (Relayed(wire[c][i]) /\ ~reraise[c]) =>
            \E j \in 1..(i - 1) : wire[c][j] = AckLine

\* a connection is written nothing by a broadcast before it is registered
C35_NothingBeforeRegistered ==
    \A c \in Conns : \A i \in 1..Len(wire[c]) :
        Relayed(wire[c][i]) => hist[c].inserted = 1

\* a handler that finds the lock free of holder and waiters when it calls its
\* join broadcast is written its acknowledgment before any broadcast line
C35_AckFirstWhenUncontended ==
    [][\A c \in Conns :
        (hist[c].inserted = 0 /\ hist'[c].inserted = 1 /\ pc'[c] # "bcast_lock"
         /\ pc'[c] # "done")
            => /\ \A i \in 1..Len(wire'[c]) : ~Relayed(wire'[c][i])
               /\ lockOwner' = c \/ Last(wire'[c]) = AckLine]_vars

\* ---- the notices about one name

\* the names a connection may come to hold
UserNames ==
    ({ Strip(l) : l \in NameLines } \ {<<>>}) \cup { DefaultName(c) : c \in Conns }

\* the join and departure notices about name among what was written to w,
\* in order
NoticeSeq(w, name) ==
    SelectSeq(w, LAMBDA l : l \in {JoinLine(name), LeaveLine(name)})

\* no two joins and no two departures in a row
Alternating(s) == \A i \in 1..(Len(s) - 1) : s[i] # s[i + 1]

\* the connection is registered and its handler runs
StaysRegistered(d) == InRegistry(connected_clients, d) /\ pc[d] # "done"

\* C36: a registered connection has not been written a departure notice
\* that carries the name it holds
C36_NoOwnDeparture ==
    \A c \in Conns :
        StaysRegistered(c) =>
            \A i \in 1..Len(wire[c]) :
                wire[c][i] # LeaveLine(NameOf(connected_clients, c))

\* the notices about one name that a registered connection was written
\* alternate
C36_Alternate ==
    \A d \in Conns : \A n \in UserNames :
        StaysRegistered(d) => Alternating(NoticeSeq(wire[d], n))

\* the same as long as no broadcast has removed a connection and no
\* CancelledError has reached a handler, for the names other than "Someone"
C36_AlternateUnlessForced ==
    \A d \in Conns : \A n \in UserNames \ {Someone} :
        /\ StaysRegistered(d)
        /\ \A c \in Conns : hist[c].forced = 0 /\ ~reraise[c]
        => Alternating(NoticeSeq(wire[d], n))

\* the first notice about a name that a registered connection was written is
\* a join notice
C36_StartsWithJoin ==
    \A d \in Conns : \A n \in UserNames :
        (StaysRegistered(d) /\ NoticeSeq(wire[d], n) # <<>>) =>
            Head(NoticeSeq(wire[d], n)) = JoinLine(n)

\* a connection that holds a name has been written the departure notice of
\* the name's previous holder, with no failure and no cancellation anywhere
C36_OwnDepartureSeen ==
    /\ events = 0
    /\ \E c \in Conns :
        /\ StaysRegistered(c)
        /\ \E i \in 1..Len(wire[c]) :
                wire[c][i] = LeaveLine(NameOf(connected_clients, c))

\* ---- the order of the broadcasts

\* the name under which the handler of c relays
RelayName(c) ==
    IF Strip(RelayNameLine(c)) = <<>> THEN DefaultName(c)
    ELSE Strip(RelayNameLine(c))

\* two broadcast lines that two connections were both written stand in the
\* same order on both streams
C37_GlobalOrder ==
    \A d1 \in Conns : \A d2 \in Conns :
        \A i1 \in 1..Len(wire[d1]) : \A j1 \in 1..Len(wire[d1]) :
            \A i2 \in 1..Len(wire[d2]) : \A j2 \in 1..Len(wire[d2]) :
                /\ i1 < j1
                /\ Relayed(wire[d1][i1]) /\ Relayed(wire[d1][j1])
                /\ wire[d2][i2] = wire[d1][i1]
                /\ wire[d2][j2] = wire[d1][j1]
                => i2 < j2

\* the lines relayed from one sender stand on every stream in the order in
\* which the sender's handler read them
C37_SenderOrder ==
    \A c \in Conns : \A d \in Conns :
        \A i \in 1..Len(heard[c]) : \A j \in 1..Len(heard[c]) :
            \A p \in 1..Len(wire[d]) : \A q \in 1..Len(wire[d]) :
                /\ i < j
                /\ wire[d][p] = ChatLine(RelayName(c), Strip(heard[c][i]))
                /\ wire[d][q] = ChatLine(RelayName(c), Strip(heard[c][j]))
                => p < q

WrittenTo == { w \in Conns : Len(wire'[w]) > Len(wire[w]) /\ Relayed(Last(wire'[w])) }

\* a step writes at most one broadcast line, and while a handler's
\* broadcast is suspended in a drain the line is written by that handler
\* (it is the broadcast's, or that of the departure broadcast which a
\* cancelled handler goes on to): the broadcasts write one after the other,
\* whatever the number of connections
C37_OneBroadcastAtATime ==
    [][/\ \A v \in WrittenTo : \A w \in WrittenTo : v = w
       /\ \A w \in WrittenTo : Len(wire'[w]) = Len(wire[w]) + 1
       /\ \A c \in Conns : \A w \in WrittenTo :
            pc[c] = "bcast_drain" =>
                /\ lockOwner = c
                /\ Last(wire'[w]) \in {bmsg[c] \o <<NL>>, bmsg'[c] \o <<NL>>}]_vars

\* ---- the lock is not taken twice

\* where a handler waits for the lock
LockWaits == {"reg_lock", "bcast_lock", "cleanup_lock"}

\* C38: no handler waits for the lock while it holds it: the handlers that
\* wait are those in the lock's queue, and the handler that holds the lock is
\* suspended in a drain inside the block (of a broadcast, or of the
\* rejection)
C38_NoSelfDeadlock ==
    \A c \in Conns :
        /\ pc[c] \in LockWaits => lockOwner # c
        /\ pc[c] \in LockWaits <=> \E i \in 1..Len(lockWaiters) : lockWaiters[i] = c
        /\ lockOwner = c => pc[c] \in {"bcast_drain", "reject_drain"}

\* one handler holds the lock in its join broadcast, having left it after
\* the registration, while another that has left it after its cleanup waits
\* for it to announce the departure
C38_Witness ==
    \E c \in Conns : \E d \in Conns \ {c} :
        /\ lockOwner = c /\ pc[c] = "bcast_drain" /\ phase[c] = "join"
        /\ hist[c].inserted = 1
        /\ pc[d] = "bcast_lock" /\ phase[d] = "leave"
        /\ hist[d].removed = 1

\* ---- the departure notice and the connection that departs

\* the handler of c is in its departure broadcast
Departing(c) == phase[c] = "leave"

\* while the handler of c is in its departure broadcast the connection is
\* not in the registry and not in the broadcast's snapshot
C39_OutOfSnapshot ==
    \A c \in Conns :
        Departing(c) =>
            /\ ~InRegistry(connected_clients, c)
            /\ lockOwner = c => \A i \in 1..Len(all_writers) : all_writers[i] # c

\* from the step in which the handler of c calls its departure broadcast
\* nothing is written to c any more, and the broadcast's snapshot is the
\* registry without c
C39_NothingWritten ==
    \A c \in Conns :
        ((Departing(c) \/ Departing(c)') /\ pc'[c] # "done") =>
            /\ wire'[c] = wire[c]
            /\ (lockOwner # c /\ lockOwner' = c) =>
                    all_writers' = Writers(connected_clients')

\* C39: a departing connection is not written its own departure notice: it
\* is out of the registry before the departure broadcast takes its snapshot,
\* and the snapshot holds the connections registered then
C39_NotToItself == []C39_OutOfSnapshot /\ [][C39_NothingWritten]_vars

\* the departure broadcast of one connection is under way with the two
\* others as its targets, and the first of them has been written the notice
C39_Witness ==
    \E c \in Conns :
        /\ Departing(c) /\ lockOwner = c /\ pc[c] = "bcast_drain"
        /\ Len(all_writers) = 2 /\ bpos = 1
        /\ all_writers = Writers(connected_clients)
        /\ Last(wire[all_writers[1]]) = LeaveLine(departing[c])
        /\ \A i \in 1..Len(wire[c]) : wire[c][i] # LeaveLine(departing[c])

====
